---- MODULE Spec2Model ----
\* Model of fixflac4lms' library sync engine (convertOpus, pruneOutput and the
\* two tree walks that drive them: the plain walk in main and the progress-mode
\* worker processFiles).
\*
\* Representation.  A file name is the sequence of its dot-separated pieces
\* ("a.opus.tmp" is <<"a","opus","tmp">>, ".st" is <<"","st">>), a path is a
\* record [abs, segs] with segs the sequence of its names, and the file system
\* is keyed by the absolute sequence of names.
EXTENDS Integers, Sequences, FiniteSets, TLC

\* ---------------------------------------------------------------- bounds
MaxRuns == 2

\* ------------------------------------------------------ sequences, names
Last(s) == s[Len(s)]

Front(s) == SubSeq(s, 1, Len(s) - 1)

IsPrefix(p, s) == Len(p) <= Len(s) /\ SubSeq(s, 1, Len(p)) = p

\* strings.ToLower on one piece of a name
Lower(tok) == CASE tok = "FLAC" -> "flac" [] tok = "OPUS" -> "opus" [] OTHER -> tok

\* filepath.Ext of a name: the suffix from the final dot, "" when there is none
ExtOf(name) == IF Len(name) > 1 THEN <<Last(name)>> ELSE <<>>

\* strings.EqualFold on two extensions
EqualFold(e1, e2) ==
    /\ Len(e1) = Len(e2)
    /\ \A i \in 1..Len(e1) : Lower(e1[i]) = Lower(e2[i])

\* strings.TrimSuffix(name, filepath.Ext(name))
TrimExt(name) == IF Len(name) > 1 THEN Front(name) ELSE name

\* name + ".ext"
AddExt(name, ext) == Append(name, ext)

\* strings.HasPrefix(d.Name(), ".")
IsHiddenName(name) == Len(name) > 1 /\ name[1] = ""

\* mutant: the test is made on filepath.Ext(path), which is only the last piece
HasOpusTmpSuffix_ext(segs) == Len(segs) > 0 /\ ExtOf(Last(segs)) = <<"opus", "tmp">>

\* strings.HasSuffix(path, ".opus.tmp")
HasOpusTmpSuffix(segs) ==
    /\ Len(segs) > 0
    /\ LET n == Last(segs)
       IN  Len(n) >= 3 /\ n[Len(n)] = "tmp" /\ n[Len(n) - 1] = "opus"

RECURSIVE SumLen(_)
SumLen(s) == IF s = <<>> THEN 0 ELSE Len(s[1]) + SumLen(Tail(s))

\* len() of a name as a string: its pieces and the dots between them
NameLen(name) == SumLen(name) + (Len(name) - 1)

RECURSIVE PathLen(_)
\* len() of a path string: every name preceded by a separator
PathLen(segs) == IF segs = <<>> THEN 0 ELSE 1 + NameLen(segs[1]) + PathLen(Tail(segs))

\* ----------------------------------------------------------------- paths
\* process working directory (the file system root)
Cwd == <<>>

MkPath(a, s) == [abs |-> a, segs |-> s]

\* filepath.Abs
AbsPath(p) == IF p.abs THEN p ELSE MkPath(TRUE, Cwd \o p.segs)

\* the file system key a path names
Resolve(p) == AbsPath(p).segs

\* filepath.Dir
DirPath(p) == MkPath(p.abs, IF p.segs = <<>> THEN <<>> ELSE Front(p.segs))

\* the name ".."
DotDot == <<"", "", "">>

RECURSIVE CommonLen(_, _)
CommonLen(a, b) ==
    IF a = <<>> \/ b = <<>> \/ a[1] # b[1] THEN 0
    ELSE 1 + CommonLen(Tail(a), Tail(b))

\* filepath.Rel(base, targ): an error when exactly one of the two is absolute,
\* else ".." for every name of base below the common prefix, then the rest of targ
Rel(base, targ) ==
    IF base.abs # targ.abs THEN [err |-> TRUE, segs |-> <<>>]
    ELSE LET k == CommonLen(base.segs, targ.segs)
         IN  [err  |-> FALSE,
              segs |-> [i \in 1..(Len(base.segs) - k) |-> DotDot]
                       \o SubSeq(targ.segs, k + 1, Len(targ.segs))]

ReplaceExt_append(segs, ext) == Front(segs) \o <<AddExt(Last(segs), ext)>>

\* the final name of a path with its extension replaced by ext
ReplaceExt(segs, ext) == Front(segs) \o <<AddExt(TrimExt(Last(segs)), ext)>>

\* ------------------------------------------------------------- the trees
SrcRoot == << <<"m">> >>

OutRoot == << <<"o">> >>

\* mutant: every join lands under the source root
JoinPath_src(p, rel) == MkPath(TRUE, SrcRoot \o rel)

\* filepath.Join(p, rel)
JoinPath(p, rel) == MkPath(p.abs, p.segs \o rel)

AFlac == SrcRoot \o << <<"a", "flac">> >>

BFlac == SrcRoot \o << <<"d">>, <<"b", "FLAC">> >>

CFlac == SrcRoot \o << <<"", "h">>, <<"c", "flac">> >>

SrcFiles == {AFlac, BFlac, CFlac}

\* byte order of the names that occur, as filepath.WalkDir sorts directory entries
NameOrder ==
    << <<"", "flac">>, <<"", "h">>, <<"", "opus">>, <<"", "opus", "tmp">>, <<"", "st">>,
       <<"a", "FLAC">>, <<"a", "b", "flac">>, <<"a", "b", "opus">>, <<"a", "b", "opus", "tmp">>,
       <<"a", "flac">>, <<"a", "opus">>, <<"a", "opus", "flac">>, <<"a", "opus", "opus">>,
       <<"a", "opus", "opus", "tmp">>, <<"a", "opus", "tmp">>,
       <<"b", "FLAC">>, <<"b", "opus">>, <<"b", "opus", "tmp">>,
       <<"c", "flac">>, <<"c", "opus">>, <<"c", "opus", "tmp">>,
       <<"cover", "jpg">>, <<"d">>, <<"m">>, <<"o">>, <<"p">>, <<"q">>,
       <<"x", "opus">>, <<"y", "opus">> >>

NameRank(n) == CHOOSE i \in 1..Len(NameOrder) : NameOrder[i] = n

RECURSIVE PathLess(_, _)
\* p is visited before q by a walk: lexical on the names, a directory before its content
PathLess(p, q) ==
    IF p = <<>> THEN q # <<>>
    ELSE IF q = <<>> THEN FALSE
    ELSE IF p[1] = q[1] THEN PathLess(Tail(p), Tail(q))
    ELSE NameRank(p[1]) < NameRank(q[1])

RECURSIVE SortPaths(_)
SortPaths(S) ==
    IF S = {} THEN <<>>
    ELSE LET m == CHOOSE x \in S : \A y \in S \ {x} : PathLess(x, y)
         IN  <<m>> \o SortPaths(S \ {m})

\* ----------------------------------------------------------- file system
\* os.Stat succeeds
Exists(fs, ds, p) == p \in DOMAIN fs \/ p \in ds

\* os.MkdirAll
MkdirAll(ds, d) == ds \cup {SubSeq(d, 1, k) : k \in 1..Len(d)}

RemoveFile(fs, p) == [q \in DOMAIN fs \ {p} |-> fs[q]]

WriteFile(fs, p, rec) == [q \in DOMAIN fs \cup {p} |-> IF q = p THEN rec ELSE fs[q]]

\* os.Rename of a regular file
Rename(fs, from, to) ==
    [q \in (DOMAIN fs \ {from}) \cup {to} |-> IF q = to THEN fs[from] ELSE fs[q]]

\* a directory os.Remove can delete
IsEmptyDir(fs, ds, d) == \A q \in DOMAIN fs \cup ds : IsPrefix(d, q) => q = d

\* ------------------------------------------------------------ convertOpus
\* What the external encoder does with "opusenc <src> <dest>":
\*   ok            dest fully written, exit 0
\*   ok_norename   as ok; the os.Rename that follows fails
\*   fail_partial  dest partially written, non-zero exit
\*   fail_none     nothing written, non-zero exit
\*   killed        the process is interrupted while the encoder is writing dest
Outcomes == {"ok", "ok_norename", "fail_partial", "fail_none", "killed"}

EncoderOk(outcome) == outcome \in {"ok", "ok_norename"}

\* cmd.Run(): the only path the encoder writes is the destination it was given
RunEncoder(fs, dest, clock, outcome) ==
    CASE EncoderOk(outcome) -> WriteFile(fs, dest, [mtime |-> clock, data |-> "opus"])
      [] outcome \in {"fail_partial", "killed"} ->
             WriteFile(fs, dest, [mtime |-> clock, data |-> "partial"])
      [] OTHER -> fs

\* mutant: an output as old as its source counts as stale
UpToDate_strict(t1, t2) == t2 > t1

\* inStat.ModTime().After(outStat.ModTime()) is false
UpToDate(t1, t2) == ~(t1 > t2)

\* mutant: the encoder is handed the final path
TempPath_final(outputFile) == outputFile

\* tempOutputFile := outputFile + ".tmp"
TempPath(outputFile) == Front(outputFile) \o <<AddExt(Last(outputFile), "tmp")>>

\* the observation of one convertOpus call
ConvResult(fs, ds, converted, err, reached, out, tmp, dests, killed, existed, t1, t2) ==
    [files |-> fs, dirs |-> ds, converted |-> converted, err |-> err,
     reached |-> reached, outputFile |-> out, tmp |-> tmp, encDests |-> dests,
     encCalls |-> Cardinality(dests), encFailed |-> FALSE, killed |-> killed, outExisted |-> existed,
     t1 |-> t1, t2 |-> t2]

convertOpus(inputFile, inputRoot, config, fs, ds, clock, outcome) ==
    LET absInputFile == AbsPath(inputFile)
        relPath      == Rel(inputRoot, absInputFile)
    IN  IF relPath.err
        THEN ConvResult(fs, ds, FALSE, TRUE, FALSE, <<>>, <<>>, {}, FALSE, FALSE, 0, 0)
        ELSE
        LET outputFile == ReplaceExt(Resolve(JoinPath(config.ConvertOpus, relPath.segs)), "opus")
            ds1        == MkdirAll(ds, Front(outputFile))
            t1         == fs[absInputFile.segs].mtime
            existed    == outputFile \in DOMAIN fs
            t2         == IF existed THEN fs[outputFile].mtime ELSE 0
            tempOutputFile == TempPath(outputFile)
            ran        == RunEncoder(fs, tempOutputFile, clock, outcome)
            res(f, conv, err, killed) ==
                [ConvResult(f, ds1, conv, err, TRUE, outputFile, tempOutputFile,
                            {tempOutputFile}, killed, existed, t1, t2)
                 EXCEPT !.encFailed = ~EncoderOk(outcome) /\ ~killed]
        IN  IF existed /\ UpToDate(t1, t2)
            THEN ConvResult(fs, ds1, FALSE, FALSE, TRUE, outputFile, tempOutputFile,
                            {}, FALSE, existed, t1, t2)
            ELSE IF outcome = "killed" THEN res(ran, FALSE, FALSE, TRUE)
            ELSE IF config.Verbose /\ ~config.Progress
            THEN IF ~EncoderOk(outcome) THEN res(RemoveFile(ran, tempOutputFile), FALSE, TRUE, FALSE)
                 ELSE IF outcome = "ok_norename" THEN res(ran, FALSE, TRUE, FALSE)
                 ELSE res(Rename(ran, tempOutputFile, outputFile), TRUE, FALSE, FALSE)
            ELSE IF ~EncoderOk(outcome) THEN res(ran, FALSE, TRUE, FALSE)
                 ELSE IF outcome = "ok_norename" THEN res(ran, FALSE, TRUE, FALSE)
                 ELSE res(Rename(ran, tempOutputFile, outputFile), TRUE, FALSE, FALSE)

\* ------------------------------------------------------------ pruneOutput
\* mutant: hidden directories are walked like any other
SkipsDir_never(p, root) == FALSE

\* the callback skips a directory: strings.HasPrefix(d.Name(), ".") && path != outputRoot
SkipsDir(p, root) == IsHiddenName(Last(p)) /\ p # root

\* the paths filepath.WalkDir hands to the callback: everything under root that is
\* not below a directory the callback skipped
Walked(fs, ds, root) ==
    {p \in DOMAIN fs \cup ds :
        /\ IsPrefix(root, p)
        /\ \A k \in (Len(root) + 1)..(Len(p) - 1) : ~SkipsDir(SubSeq(p, 1, k), root)}

\* the file is one the orphan check applies to
IsOpusFile(p) == EqualFold(ExtOf(Last(p)), <<"opus">>)

\* mutant: the existence check is made on the output file itself
ExpectedFlac_self(inputRoot, outputRoot, p) == p

\* the source path whose absence makes an output file an orphan
ExpectedFlac(inputRoot, outputRoot, p) ==
    LET rel  == Rel(outputRoot, MkPath(outputRoot.abs, p))
    IN  Resolve(JoinPath(inputRoot, ReplaceExt(rel.segs, "flac")))

RECURSIVE PruneWalk(_, _, _, _, _, _)
\* the walk callback applied to the paths in walk order; stops at the first error
PruneWalk(list, st, ds, inputRoot, outputRoot, rmFail) ==
    IF list = <<>> \/ st.err THEN st
    ELSE
    LET p    == list[1]
        rest == Tail(list)
        next(s) == PruneWalk(rest, s, ds, inputRoot, outputRoot, rmFail)
        remove ==
            IF p \in rmFail THEN [st EXCEPT !.err = TRUE]
            ELSE [st EXCEPT !.files = RemoveFile(st.files, p),
                            !.removed = st.removed \cup {p}]
    IN  IF p \in ds
        THEN IF SkipsDir(p, Resolve(outputRoot)) THEN next(st)
             ELSE IF p # Resolve(outputRoot)
                  THEN next([st EXCEPT !.dirsToRemove = Append(st.dirsToRemove, p),
                                       !.inspected = st.inspected \cup {p}])
                  ELSE next([st EXCEPT !.inspected = st.inspected \cup {p}])
        ELSE IF HasOpusTmpSuffix(p) THEN next([remove EXCEPT !.inspected = st.inspected \cup {p}])
        ELSE IF IsOpusFile(p)
             THEN IF ~Exists(st.files, ds, ExpectedFlac(inputRoot, outputRoot, p))
                  THEN next([remove EXCEPT !.inspected = st.inspected \cup {p}])
                  ELSE next([st EXCEPT !.inspected = st.inspected \cup {p}])
        ELSE next([st EXCEPT !.inspected = st.inspected \cup {p}])

Swap(a, i, j) == [a EXCEPT ![i] = a[j], ![j] = a[i]]

RECURSIVE SortInner(_, _, _)
SortInner(a, i, j) ==
    IF j > Len(a) THEN a
    ELSE IF PathLen(a[i]) < PathLen(a[j]) THEN SortInner(Swap(a, i, j), i, j + 1)
    ELSE SortInner(a, i, j + 1)

\* mutant: the directories are tried in walk order
SortByLenDesc_unsorted(a, i) == a

RECURSIVE SortByLenDesc(_, _)
\* the exchange sort of dirsToRemove by descending string length
SortByLenDesc(a, i) ==
    IF i > Len(a) THEN a ELSE SortByLenDesc(SortInner(a, i, i + 1), i + 1)

RECURSIVE RemoveDirs(_, _, _)
\* os.Remove on every collected directory in order; a failure is ignored
RemoveDirs(list, fs, ds) ==
    IF list = <<>> THEN ds
    ELSE IF IsEmptyDir(fs, ds, list[1]) THEN RemoveDirs(Tail(list), fs, ds \ {list[1]})
    ELSE RemoveDirs(Tail(list), fs, ds)

pruneOutput(inputRoot, outputRoot, fs, ds, rmFail) ==
    LET root == Resolve(outputRoot)
        st0  == [files |-> fs, dirsToRemove |-> <<>>, removed |-> {}, inspected |-> {},
                 err |-> FALSE]
    IN  IF ~(root \in ds)
        THEN [files |-> fs, dirs |-> ds, err |-> TRUE, order |-> <<>>,
              removed |-> {}, inspected |-> {}]
        ELSE
        LET st     == PruneWalk(SortPaths(Walked(fs, ds, root)), st0, ds,
                                inputRoot, outputRoot, rmFail)
            sorted == SortByLenDesc(st.dirsToRemove, 1)
        IN  IF st.err
            THEN [files |-> st.files, dirs |-> ds, err |-> TRUE, order |-> <<>>,
                  removed |-> st.removed, inspected |-> st.inspected]
            ELSE [files |-> st.files, dirs |-> RemoveDirs(sorted, st.files, ds),
                  err |-> FALSE, order |-> sorted,
                  removed |-> st.removed, inspected |-> st.inspected]

\* ------------------------------------------------------- calls, byte strings
\* A call evaluates its arguments once, before the body runs.
Call1(F(_), a) == CHOOSE y \in {F(z) : z \in {a}} : TRUE

Call2(F(_, _), a, b) == CHOOSE y \in {F(z[1], z[2]) : z \in {<<a, b>>}} : TRUE

Call3(F(_, _, _), a, b, c) ==
    CHOOSE y \in {F(z[1], z[2], z[3]) : z \in {<<a, b, c>>}} : TRUE

\* A length is kept exactly, as hi * Radix + lo with 0 <= lo < Radix, so that
\* len(x) of a 64-bit build and its conversion uint32(len(x)) are both
\* representable.  A byte string ([]byte, string) is a sequence of segments:
\* a literal segment lists its bytes, a fill segment stands for n >= Radix
\* copies of the byte b.  Seg keeps the representation unique: literals are
\* merged, a fill takes in the equal bytes next to it, a short fill is
\* written out.
Radix == 256 * 256

BigOf(k) == Call1(LAMBDA j : [hi |-> j \div Radix, lo |-> j % Radix], k)

BigAdd(x, y) ==
    Call2(LAMBDA u, v : [hi |-> u.hi + v.hi + ((u.lo + v.lo) \div Radix),
                         lo |-> (u.lo + v.lo) % Radix], x, y)

BigLeq(x, y) == Call2(LAMBDA u, v : u.hi < v.hi \/ (u.hi = v.hi /\ u.lo <= v.lo), x, y)

\* x - y for y <= x
BigSub(x, y) ==
    Call2(LAMBDA u, v : IF u.lo >= v.lo THEN [hi |-> u.hi - v.hi, lo |-> u.lo - v.lo]
                        ELSE [hi |-> u.hi - v.hi - 1, lo |-> u.lo + Radix - v.lo], x, y)

\* uint32(n): the conversion keeps the low 32 bits
Uint32(x) == Call1(LAMBDA u : [hi |-> u.hi % Radix, lo |-> u.lo], x)

Lit(bytes) == [lit |-> bytes, b |-> 0, n |-> BigOf(0)]

\* the string with the given bytes
Str(bytes) == Call1(LAMBDA q : IF q = <<>> THEN <<>> ELSE <<Lit(q)>>, bytes)

\* the number of bytes equal to b at the end and at the start of a literal
TrailingEq(l, b) ==
    CHOOSE k \in 0..Len(l) : /\ \A j \in (Len(l) - k + 1)..Len(l) : l[j] = b
                             /\ (k = Len(l) \/ l[Len(l) - k] # b)

LeadingEq(l, b) ==
    CHOOSE k \in 0..Len(l) : /\ \A j \in 1..k : l[j] = b
                             /\ (k = Len(l) \/ l[k + 1] # b)

SegOf(s, x) ==
    IF x.lit = <<>> /\ x.n = BigOf(0) THEN s
    ELSE IF x.lit = <<>> /\ x.n.hi = 0
    THEN LET l == [j \in 1..x.n.lo |-> x.b] IN
         IF s # <<>> /\ Last(s).lit # <<>>
         THEN Front(s) \o <<Lit(Last(s).lit \o l)>>
         ELSE IF s # <<>> /\ Last(s).b = x.b
         THEN Front(s) \o <<[Last(s) EXCEPT !.n = BigAdd(@, x.n)]>>
         ELSE s \o <<Lit(l)>>
    ELSE IF s = <<>> THEN <<x>>
    ELSE IF Last(s).lit # <<>> /\ x.lit # <<>>
    THEN Front(s) \o <<Lit(Last(s).lit \o x.lit)>>
    ELSE IF Last(s).lit = <<>> /\ x.lit = <<>>
    THEN IF Last(s).b = x.b THEN Front(s) \o <<[Last(s) EXCEPT !.n = BigAdd(@, x.n)]>>
         ELSE s \o <<x>>
    ELSE IF Last(s).lit # <<>>
    THEN Call1(LAMBDA k :
                 IF k = Len(Last(s).lit)
                 THEN Front(s) \o <<[x EXCEPT !.n = BigAdd(@, BigOf(k))]>>
                 ELSE Front(s) \o <<Lit(SubSeq(Last(s).lit, 1, Len(Last(s).lit) - k)),
                                    [x EXCEPT !.n = BigAdd(@, BigOf(k))]>>,
               TrailingEq(Last(s).lit, x.b))
    ELSE Call1(LAMBDA k :
                 IF k = Len(x.lit)
                 THEN Front(s) \o <<[Last(s) EXCEPT !.n = BigAdd(@, BigOf(k))]>>
                 ELSE Front(s) \o <<[Last(s) EXCEPT !.n = BigAdd(@, BigOf(k))],
                                    Lit(SubSeq(x.lit, k + 1, Len(x.lit)))>>,
               LeadingEq(x.lit, Last(s).b))

\* s followed by one more segment x
Seg(s, x) == Call2(SegOf, s, x)

\* a + b on strings, append(a, b...) on byte slices
RECURSIVE Cat(_, _)
Cat(s, t) ==
    Call2(LAMBDA u, v : IF v = <<>> THEN u ELSE Cat(Seg(u, v[1]), Tail(v)), s, t)

\* the string of k bytes b
Fill(b, k) == Seg(<<>>, [lit |-> <<>>, b |-> b, n |-> k])

RECURSIVE CatAll(_)
CatAll(ss) ==
    Call1(LAMBDA q : IF q = <<>> THEN <<>> ELSE Cat(CatAll(Front(q)), Last(q)), ss)

SegLen(x) == BigAdd(BigOf(Len(x.lit)), x.n)

\* len(s)
RECURSIVE BLen(_)
BLen(s) ==
    Call1(LAMBDA u : IF u = <<>> THEN BigOf(0) ELSE BigAdd(SegLen(u[1]), BLen(Tail(u))), s)

\* the first k bytes of one segment and what is left of it, for k < SegLen(x)
SegTake(x, k) ==
    IF x.lit # <<>> THEN Str(SubSeq(x.lit, 1, k.lo)) ELSE Fill(x.b, k)

SegDrop(x, k) ==
    IF x.lit # <<>> THEN Str(SubSeq(x.lit, k.lo + 1, Len(x.lit)))
    ELSE Fill(x.b, BigSub(x.n, k))

\* s[:k] and s[k:] for k <= len(s)
RECURSIVE TakeB(_, _)
TakeB(s, k) ==
    Call2(LAMBDA u, j :
            IF u = <<>> \/ j = BigOf(0) THEN <<>>
            ELSE IF BigLeq(SegLen(u[1]), j)
            THEN Cat(<<u[1]>>, TakeB(Tail(u), BigSub(j, SegLen(u[1]))))
            ELSE SegTake(u[1], j), s, k)

RECURSIVE DropB(_, _)
DropB(s, k) ==
    Call2(LAMBDA u, j :
            IF u = <<>> \/ j = BigOf(0) THEN u
            ELSE IF BigLeq(SegLen(u[1]), j) THEN DropB(Tail(u), BigSub(j, SegLen(u[1])))
            ELSE Cat(SegDrop(u[1], j), Tail(u)), s, k)

\* the bytes of a string shorter than Radix
Flat(s) == Call1(LAMBDA u : IF u = <<>> THEN <<>> ELSE u[1].lit, s)

\* binary.Write / binary.Read of a uint32 in the two byte orders
PutU32LE(v) ==
    Call1(LAMBDA u : Str(<<u.lo % 256, u.lo \div 256, u.hi % 256, u.hi \div 256>>), v)

PutU32BE(v) ==
    Call1(LAMBDA u : Str(<<u.hi \div 256, u.hi % 256, u.lo \div 256, u.lo % 256>>), v)

GetU32LE(s) ==
    Call1(LAMBDA q : [hi |-> q[3] + 256 * q[4], lo |-> q[1] + 256 * q[2]], Flat(s))

\* a bytes.Reader over the unread rest of the buffer: binary.Read of a uint32
\* and io.ReadFull fail when fewer bytes remain than they need
ReadU32LE(r) ==
    Call1(LAMBDA u :
            IF ~BigLeq(BigOf(4), BLen(u)) THEN [err |-> TRUE, v |-> BigOf(0), rest |-> u]
            ELSE [err |-> FALSE, v |-> GetU32LE(TakeB(u, BigOf(4))),
                  rest |-> DropB(u, BigOf(4))], r)

ReadFull(r, k) ==
    Call2(LAMBDA u, j :
            IF ~BigLeq(j, BLen(u)) THEN [err |-> TRUE, bytes |-> <<>>, rest |-> u]
            ELSE [err |-> FALSE, bytes |-> TakeB(u, j), rest |-> DropB(u, j)], r, k)

\* ------------------------------------------------------- VorbisComment
NoBlock == [Vendor |-> <<>>, Comments |-> <<>>]

\* 16 x: the bytes of a []string of x elements (a string header is 16 bytes)
Times16(x) ==
    Call1(LAMBDA u : [hi |-> 16 * u.hi + ((16 * u.lo) \div Radix), lo |-> (16 * u.lo) % Radix], x)

\* make([]byte, n), make([]string, n): the runtime either hands out the memory
\* or ends the process; mem is the number of bytes it can still hand out
MakeOk(bytes, mem) == BigLeq(bytes, mem)

\* the process was ended inside the parser: nothing is returned
ParseFatal(data) == [err |-> FALSE, fatal |-> TRUE, block |-> NoBlock, rest |-> data]

\* the parser returned an error and no block
ParseError(data) == [err |-> TRUE, fatal |-> FALSE, block |-> NoBlock, rest |-> data]

\* the loop of ParseVorbisComment over the declared number of entries
RECURSIVE ReadComments(_, _, _, _)
ReadComments(r, left, acc, mem) ==
    Call3(LAMBDA u, j, a :
        IF j = BigOf(0) THEN [err |-> FALSE, fatal |-> FALSE, comments |-> a, rest |-> u]
        ELSE Call1(LAMBDA l :
               IF l.err THEN [err |-> TRUE, fatal |-> FALSE, comments |-> <<>>, rest |-> u]
               ELSE IF ~MakeOk(l.v, mem)
               THEN [err |-> FALSE, fatal |-> TRUE, comments |-> <<>>, rest |-> u]
               ELSE Call1(LAMBDA c :
                      IF c.err THEN [err |-> TRUE, fatal |-> FALSE, comments |-> <<>>, rest |-> u]
                      ELSE ReadComments(c.rest, BigSub(j, BigOf(1)), Append(a, c.bytes), mem),
                    ReadFull(l.rest, l.v)),
             ReadU32LE(u)), r, left, acc)

\* rest is the part of the buffer the reader has not consumed
ParseVorbisComment(data, mem) ==
    Call1(LAMBDA vl :
      IF vl.err THEN ParseError(data)
      ELSE IF ~MakeOk(vl.v, mem) THEN ParseFatal(data)
      ELSE Call1(LAMBDA v :
        IF v.err THEN ParseError(data)
        ELSE Call1(LAMBDA ll :
          IF ll.err THEN ParseError(data)
          ELSE IF ~MakeOk(Times16(ll.v), mem) THEN ParseFatal(data)
          ELSE Call1(LAMBDA cs :
            IF cs.fatal THEN ParseFatal(data)
            ELSE IF cs.err THEN ParseError(data)
            ELSE [err |-> FALSE, fatal |-> FALSE,
                  block |-> [Vendor |-> v.bytes, Comments |-> cs.comments],
                  rest |-> cs.rest],
            ReadComments(ll.rest, ll.v, <<>>, mem)),
          ReadU32LE(v.rest)),
        ReadFull(vl.rest, vl.v)),
      ReadU32LE(data))

LenField_be(s) == PutU32BE(Uint32(BLen(s)))

\* the length field written in front of a string of the block
LenField(s) == PutU32LE(Uint32(BLen(s)))

MarshalComments_bare(cs) == CatAll(cs)

\* each entry: its length field, then its bytes
MarshalComments(cs) == CatAll([j \in 1..Len(cs) |-> Cat(LenField(cs[j]), cs[j])])

Marshal(vc) ==
    CatAll(<< LenField(vc.Vendor), vc.Vendor,
              PutU32LE(Uint32(BigOf(Len(vc.Comments)))),
              MarshalComments(vc.Comments) >>)

\* ------------------------------------------------------------ processMBIDs
\* strings.ToUpper on the ASCII letters
UpperByte(b) == IF b >= 97 /\ b <= 122 THEN b - 32 ELSE b

UpperSeg(x) == [x EXCEPT !.lit = [j \in 1..Len(x.lit) |-> UpperByte(x.lit[j])],
                         !.b = UpperByte(x.b)]

RECURSIVE ToUpper(_)
ToUpper(s) ==
    Call1(LAMBDA u : IF u = <<>> THEN <<>> ELSE Seg(ToUpper(Front(u)), UpperSeg(Last(u))), s)

EqSign == Str(<<61>>)
PlusSign == Str(<<43>>)
\* "MUSICBRAINZ_"
MBPrefix == Str(<<77, 85, 83, 73, 67, 66, 82, 65, 73, 78, 90, 95>>)

HasPrefix(s, p) ==
    Call2(LAMBDA u, q : BigLeq(BLen(q), BLen(u)) /\ TakeB(u, BLen(q)) = q, s, p)

\* strings.Index(s, "="): the offset of the first "=", found is FALSE when
\* there is none
RECURSIVE IndexEq(_)
IndexEq(s) ==
    Call1(LAMBDA u :
        IF u = <<>> THEN [found |-> FALSE, at |-> BigOf(0)]
        ELSE IF u[1].lit = <<>> /\ u[1].b = 61 THEN [found |-> TRUE, at |-> BigOf(0)]
        ELSE IF \E j \in 1..Len(u[1].lit) : u[1].lit[j] = 61
        THEN [found |-> TRUE,
              at |-> BigOf((CHOOSE j \in 1..Len(u[1].lit) :
                              u[1].lit[j] = 61 /\ \A i \in 1..(j - 1) : u[1].lit[i] # 61) - 1)]
        ELSE Call1(LAMBDA r : [found |-> r.found, at |-> BigAdd(SegLen(u[1]), r.at)],
                   IndexEq(Tail(u))), s)

\* strings.SplitN(c, "=", 2): one part when c has no "=", else the text before
\* the first "=" and everything after it
SplitN2(c) ==
    Call2(LAMBDA u, e : IF ~e.found THEN <<u>>
                        ELSE <<TakeB(u, e.at), DropB(u, BigAdd(e.at, BigOf(1)))>>,
          c, IndexEq(c))

\* strings.Join(ids, "+")
RECURSIVE JoinPlus(_)
JoinPlus(ids) ==
    Call1(LAMBDA q : IF Len(q) = 1 THEN q[1]
                     ELSE CatAll(<<JoinPlus(Front(q)), PlusSign, Last(q)>>), ids)

\* isTarget: slices.Contains(targetTags, t)
isTarget(targetTags, t) == \E i \in 1..Len(targetTags) : targetTags[i] = t

\* tagValues[key] = append(tagValues[key], val)
Collect(tv, key, val) ==
    Call3(LAMBDA f, k, v : IF k \in DOMAIN f THEN [f EXCEPT ![k] = Append(@, v)]
                           ELSE f @@ (k :> <<v>>), tv, key, val)

TracksKey_any(key) == TRUE

\* only keys of the MusicBrainz namespace are counted for the warning
TracksKey(key) == HasPrefix(key, MBPrefix)

\* one round of the first loop: the value of a target key is collected, every
\* other entry goes to newComments as it is
FirstStep(st, c, targetTags) ==
    Call2(LAMBDA parts, key :
            IF Len(parts) # 2 THEN [st EXCEPT !.newComments = Append(@, c)]
            ELSE IF isTarget(targetTags, key)
            THEN [st EXCEPT !.tagValues = Collect(@, key, parts[2])]
            ELSE [tagValues |-> IF TracksKey(key) THEN Collect(st.tagValues, key, parts[2])
                                ELSE st.tagValues,
                  newComments |-> Append(st.newComments, c)],
          SplitN2(c), ToUpper(SplitN2(c)[1]))

RECURSIVE FirstPass(_, _, _)
FirstPass(comments, targetTags, st) ==
    Call3(LAMBDA cs, tt, s0 :
            IF cs = <<>> THEN s0
            ELSE FirstPass(Tail(cs), tt, FirstStep(s0, Head(cs), tt)),
          comments, targetTags, st)

\* the warnings of the loop over tagValues, one per key of the map
RECURSIVE Warnings(_, _, _)
Warnings(tv, keys, targetTags) ==
    Call3(LAMBDA f, ks, tt :
            IF ks = {} THEN <<>>
            ELSE Call1(LAMBDA k :
                         IF ~isTarget(tt, k) /\ Len(f[k]) > 1
                         THEN <<[key |-> k, count |-> Len(f[k])]>> \o Warnings(f, ks \ {k}, tt)
                         ELSE Warnings(f, ks \ {k}, tt),
                       CHOOSE k \in ks : TRUE),
          tv, keys, targetTags)

\* one round of the second loop, for the target key t
SecondStep(st, t, ids) ==
    IF Len(ids) > 1
    THEN [newComments |-> Append(st.newComments, CatAll(<<t, EqSign, JoinPlus(ids)>>)),
          modified |-> TRUE]
    ELSE IF Len(ids) = 1
    THEN [st EXCEPT !.newComments = Append(@, CatAll(<<t, EqSign, ids[1]>>))]
    ELSE st

\* second pass: the target keys in the order of the configuration
RECURSIVE SecondPass(_, _, _)
SecondPass(targetTags, tv, st) ==
    Call3(LAMBDA tt, f, s0 :
            IF tt = <<>> THEN s0
            ELSE SecondPass(Tail(tt), f, Call3(SecondStep, s0, Head(tt), f[Head(tt)])),
          targetTags, tv, st)

\* index of the first block of the type, 0 when there is none
FirstBlock(meta, type) ==
    IF \A i \in 1..Len(meta) : meta[i].Type # type THEN 0
    ELSE CHOOSE i \in 1..Len(meta) :
             meta[i].Type = type /\ \A j \in 1..(i - 1) : meta[j].Type # type

\* the block is re-encoded only under "if modified"
WritesBack(modified) == modified

processMBIDs(meta, targetTags, mem) ==
    Call2(LAMBDA i, quiet :
        IF i = 0 THEN quiet
        ELSE Call1(LAMBDA p :
          IF p.fatal THEN [quiet EXCEPT !.fatal = TRUE]
          ELSE IF p.err THEN [quiet EXCEPT !.err = TRUE]
          ELSE Call1(LAMBDA one :
            Call1(LAMBDA two :
                [called |-> TRUE, modified |-> two.modified, err |-> FALSE, fatal |-> FALSE,
                 parsed |-> TRUE,
                 meta |-> IF WritesBack(two.modified)
                          THEN [meta EXCEPT ![i].Data =
                                  Marshal([p.block EXCEPT !.Comments = two.newComments])]
                          ELSE meta,
                 warnings |-> Warnings(one.tagValues, DOMAIN one.tagValues, targetTags),
                 newComments |-> two.newComments],
              SecondPass(targetTags, one.tagValues,
                         [newComments |-> one.newComments, modified |-> FALSE])),
            FirstPass(p.block.Comments, targetTags,
                      [tagValues |-> [t \in {targetTags[k] : k \in 1..Len(targetTags)} |-> <<>>],
                       newComments |-> <<>>])),
          ParseVorbisComment(meta[i].Data, mem)),
      FirstBlock(meta, "VorbisComment"),
      [called |-> TRUE, modified |-> FALSE, err |-> FALSE, fatal |-> FALSE, meta |-> meta,
       parsed |-> FALSE, warnings |-> <<>>, newComments |-> <<>>])

\* ----------------------------------------------------------------- Picture
PictureMarshal(p) ==
    CatAll(<< PutU32BE(p.PictureType),
              PutU32BE(Uint32(BLen(p.MimeType))), p.MimeType,
              PutU32BE(Uint32(BLen(p.Description))), p.Description,
              PutU32BE(p.Width), PutU32BE(p.Height), PutU32BE(p.Depth), PutU32BE(p.Colors),
              PutU32BE(Uint32(BLen(p.Data))), p.Data >>)

\* "image/jpeg"
MimeJpeg == Str(<<105, 109, 97, 103, 101, 47, 106, 112, 101, 103>>)

\* the block processCover builds from the decoded size and the bytes of the image
CoverPicture(w, h, data) ==
    [PictureType |-> BigOf(3), MimeType |-> MimeJpeg, Description |-> <<>>,
     Width |-> Uint32(BigOf(w)), Height |-> Uint32(BigOf(h)),
     Depth |-> BigOf(24), Colors |-> BigOf(0), Data |-> data]

\* ------------------------------------------------------------ processCover
\* The external image next to the audio file: whether os.Stat finds it,
\* os.Open opens it, image.DecodeConfig accepts it and io.ReadAll reads it.
HasPicture_never(meta) == FALSE

HasPicture(meta) == \E i \in 1..Len(meta) : meta[i].Type = "Picture"

processCover(meta, cv) ==
    LET quiet == [called |-> TRUE, modified |-> FALSE, err |-> FALSE, fatal |-> FALSE,
                  meta |-> meta, warned |-> FALSE, stat |-> FALSE, opened |-> FALSE]
    IN  IF HasPicture(meta) THEN quiet
        ELSE IF ~cv.exists THEN [quiet EXCEPT !.stat = TRUE, !.warned = TRUE]
        ELSE IF ~cv.opens THEN [quiet EXCEPT !.stat = TRUE, !.err = TRUE]
        ELSE IF ~cv.decodes \/ ~cv.reads
        THEN [quiet EXCEPT !.stat = TRUE, !.opened = TRUE, !.err = TRUE]
        ELSE [called |-> TRUE, modified |-> TRUE, err |-> FALSE, fatal |-> FALSE,
              warned |-> FALSE, stat |-> TRUE,
              opened |-> TRUE,
              meta |-> Append(meta, [Type |-> "Picture",
                                     Data |-> PictureMarshal(CoverPicture(cv.w, cv.h, cv.data))])]

\* ----------------------------------------------------------------- fixFlac
\* file is what flac.ParseFile finds on disk; saveOk is the outcome of f.Save;
\* mb and cover are what processMBIDs and processCover returned
NotCalled(meta) ==
    [called |-> FALSE, modified |-> FALSE, err |-> FALSE, fatal |-> FALSE, meta |-> meta]

FixResult(file, err, m1, m2) ==
    [err |-> err, fatal |-> m1.fatal, MBIDsFixed |-> m1.modified, CoverEmbedded |-> m2.modified,
     mb |-> m1, cover |-> m2, before |-> file.meta, f |-> m2.meta,
     dryRun |-> FALSE, saveCalled |-> FALSE, file |-> file]

DryRun_never(config) == FALSE

\* "if !config.Write": changes are reported and not saved
DryRun(config) == ~config.Write

fixFlac(file, cv, config, saveOk, mem) ==
    IF ~file.ok THEN FixResult(file, TRUE, NotCalled(file.meta), NotCalled(file.meta))
    ELSE Call1(LAMBDA m1 :
           IF m1.fatal THEN FixResult(file, FALSE, m1, NotCalled(m1.meta))
           ELSE IF m1.err THEN FixResult(file, TRUE, m1, NotCalled(m1.meta))
           ELSE Call1(LAMBDA m2 :
                  IF m2.err THEN FixResult(file, TRUE, m1, m2)
                  ELSE IF ~(m1.modified \/ m2.modified)
                  THEN FixResult(file, FALSE, m1, m2)
                  ELSE IF DryRun(config)
                  THEN [FixResult(file, FALSE, m1, m2) EXCEPT !.dryRun = TRUE]
                  ELSE [FixResult(file, ~saveOk, m1, m2) EXCEPT
                          !.saveCalled = TRUE,
                          !.file = IF saveOk THEN [ok |-> TRUE, meta |-> m2.meta] ELSE file],
                IF config.EmbedCover THEN processCover(m1.meta, cv)
                ELSE NotCalled(m1.meta)),
         IF config.FixMBIDs THEN processMBIDs(file.meta, config.MergeTags, mem)
         ELSE NotCalled(file.meta))

\* ------------------------------------------------------------ the inputs
MaxComments == 3
MaxCalls == 2
MaxEntries == 2
MaxFixRuns == 2

\* the memory the runtime can still hand out: 2^30 bytes, or more than the
\* parser can ask for (a list of 2^32 - 1 strings takes less than 2^36 bytes)
ScarceMem == [hi |-> 16384, lo |-> 0]
AmpleMem == [hi |-> 16 * Radix, lo |-> 0]
MemSizes == {ScarceMem, AmpleMem}

SeqsUpTo(S, k) == UNION {[1..j -> S] : j \in 0..k}

\* "ARTISTID", "ALBUMARTISTID", "RELEASE_ARTISTID": the default merge targets
TagArtistId == Cat(MBPrefix, Str(<<65, 82, 84, 73, 83, 84, 73, 68>>))
TagAlbumArtistId == Cat(MBPrefix, Str(<<65, 76, 66, 85, 77, 65, 82, 84, 73, 83, 84, 73, 68>>))
TagReleaseArtistId == Cat(MBPrefix, Str(<<82, 69, 76, 69, 65, 83, 69, 95, 65, 82, 84, 73, 83, 84, 73, 68>>))
DefaultTags == <<TagArtistId, TagAlbumArtistId, TagReleaseArtistId>>

\* "musicbrainz_artistid", "MUSICBRAINZ_TRACKID", "Musicbrainz_TrackId"
TagArtistIdLower == Str(<<109, 117, 115, 105, 99, 98, 114, 97, 105, 110, 122, 95, 97, 114, 116, 105, 115, 116, 105, 100>>)
TagTrackId == Cat(MBPrefix, Str(<<84, 82, 65, 67, 75, 73, 68>>))
TagTrackIdMixed == Str(<<77, 117, 115, 105, 99, 98, 114, 97, 105, 110, 122, 95, 84, 114, 97, 99, 107, 73, 100>>)
\* "CUSTOM_TAG", "custom_tag", "OTHER_TAG", "TITLE"
TagCustom == Str(<<67, 85, 83, 84, 79, 77, 95, 84, 65, 71>>)
TagCustomLower == Str(<<99, 117, 115, 116, 111, 109, 95, 116, 97, 103>>)
TagOther == Str(<<79, 84, 72, 69, 82, 95, 84, 65, 71>>)
TagTitle == Str(<<84, 73, 84, 76, 69>>)

Entry(key, val) == CatAll(<<key, EqSign, val>>)

\* the comments the blocks are made of: keys in both cases, inside and outside
\* the MusicBrainz namespace, and an entry without "="
MergePool ==
    { Entry(TagArtistId, Str(<<65>>)), Entry(TagArtistIdLower, Str(<<66>>)),
      Entry(TagTrackId, Str(<<84>>)), Entry(TagTrackIdMixed, Str(<<85>>)),
      Entry(TagCustom, Str(<<49>>)), Entry(TagCustomLower, Str(<<50>>)),
      Entry(TagOther, Str(<<51>>)), Str(<<78, 79, 69, 81>>) }

\* what --merge-tags can leave in config.MergeTags: the default, the list of
\* the test, a list in lower case, a list naming a key twice, a list of two
TagLists ==
    { DefaultTags, <<TagCustom>>, <<TagCustomLower>>, <<TagCustom, TagCustom>>,
      <<TagCustom, TagArtistId>> }

\* "libFLAC"
VendorRef == Str(<<108, 105, 98, 70, 76, 65, 67>>)

StreamInfo == [Type |-> "StreamInfo", Data |-> Str(<<0, 0, 16, 0>>)]
CommentBlock(vendor, cs) ==
    [Type |-> "VorbisComment", Data |-> Marshal([Vendor |-> vendor, Comments |-> cs])]

\* payloads that declare more than they hold: a vendor of 5 bytes with 2
\* present, 2 entries with 1 present, 2^32 - 1 entries with none present, an
\* entry of 9 bytes with 3 present
ShortVendor == Str(<<5, 0, 0, 0, 97, 98>>)
ShortCount == Str(<<0, 0, 0, 0, 2, 0, 0, 0, 3, 0, 0, 0, 65, 61, 49>>)
ShortCountMax == Str(<<0, 0, 0, 0, 255, 255, 255, 255>>)
ShortEntry == Str(<<1, 0, 0, 0, 118, 1, 0, 0, 0, 9, 0, 0, 0, 65, 61, 49>>)
ShortPayloads == {ShortVendor, ShortCount, ShortCountMax, ShortEntry}

MergeMetas ==
    {<<StreamInfo, CommentBlock(VendorRef, cs)>> : cs \in SeqsUpTo(MergePool, MaxComments)}
    \cup {<<StreamInfo>>}
    \cup {<<StreamInfo, [Type |-> "VorbisComment", Data |-> x]>> : x \in ShortPayloads}

\* 2^32
Wrap == [hi |-> Radix, lo |-> 0]
HugeZero == Fill(0, Wrap)
HugeTail == Cat(VendorRef, HugeZero)

\* 2^16 bytes "v": long, and its length fits the field
LongVendor == Fill(118, BigOf(Radix))

Vendors == {<<>>, Str(<<118>>), VendorRef, LongVendor, HugeZero, HugeTail}
CodecPool == {<<>>, Entry(Str(<<65>>), Str(<<49>>)), Str(<<78, 79, 69, 81>>), EqSign, HugeZero}
CodecBlocks ==
    {[Vendor |-> v, Comments |-> cs] : v \in Vendors, cs \in SeqsUpTo(CodecPool, MaxEntries)}

\* every prefix of the encoding of a small block, the encoding itself and the
\* encoding followed by one more byte
SmallBlocks ==
    {[Vendor |-> v, Comments |-> cs] :
        v \in {<<>>, Str(<<118>>)}, cs \in SeqsUpTo({<<>>, Entry(Str(<<65>>), Str(<<49>>))}, MaxEntries)}
PrefixesOf(x) == {TakeB(x, BigOf(j)) : j \in 0..BLen(x).lo}
\* the layout written out: vendor "v", the entries "A=1" and ""
WholePayload == Str(<<1, 0, 0, 0, 118, 2, 0, 0, 0, 3, 0, 0, 0, 65, 61, 49, 0, 0, 0, 0>>)
Payloads ==
    UNION {PrefixesOf(Marshal(blk)) \cup {Cat(Marshal(blk), Str(<<0>>))} : blk \in SmallBlocks}
    \cup ShortPayloads \cup {WholePayload}

\* "\xff\xd8": the image bytes are only carried, their size is what matters
JpegData == Str(<<255, 216>>)
Pictures ==
    {[PictureType |-> BigOf(3), MimeType |-> m, Description |-> d,
      Width |-> BigOf(w), Height |-> BigOf(w), Depth |-> BigOf(24), Colors |-> BigOf(0),
      Data |-> x] :
        m \in {MimeJpeg, HugeZero}, d \in {<<>>, Str(<<100>>), HugeTail}, w \in {1, 640},
        x \in {<<>>, JpegData, HugeZero, Cat(JpegData, HugeZero)}}

NoPicture == CoverPicture(0, 0, <<>>)
CodecInputs ==
    {[op |-> "encode", block |-> blk, payload |-> <<>>, pic |-> NoPicture] : blk \in CodecBlocks}
    \cup {[op |-> "decode", block |-> NoBlock, payload |-> x, pic |-> NoPicture] : x \in Payloads}
    \cup {[op |-> "picture", block |-> NoBlock, payload |-> <<>>, pic |-> q] : q \in Pictures}
NoInput == [op |-> "none", block |-> NoBlock, payload |-> <<>>, pic |-> NoPicture]
NoParse == [err |-> FALSE, fatal |-> FALSE, block |-> NoBlock, rest |-> <<>>]
NoOutput == [done |-> FALSE, payload |-> <<>>, parsed |-> NoParse, again |-> <<>>]

\* the files fixFlac is run on: comments to merge, nothing to merge, with and
\* without a picture block, without a comment block, with a short comment
\* payload, and a file flac.ParseFile rejects
TwoArtists ==
    <<Entry(TagArtistId, Str(<<65>>)), Entry(TagTitle, Str(<<88>>)), Entry(TagArtistIdLower, Str(<<66>>))>>
OneArtist == <<Entry(TagArtistId, Str(<<65>>)), Entry(TagTitle, Str(<<88>>))>>
OldPicture == [Type |-> "Picture", Data |-> PictureMarshal(CoverPicture(1, 1, JpegData))]
FlacFiles ==
    {[ok |-> TRUE, meta |-> m] :
        m \in { <<StreamInfo, CommentBlock(VendorRef, TwoArtists)>>,
                <<StreamInfo, CommentBlock(VendorRef, OneArtist)>>,
                <<StreamInfo, CommentBlock(VendorRef, TwoArtists), OldPicture>>,
                <<StreamInfo, OldPicture, CommentBlock(VendorRef, OneArtist)>>,
                <<StreamInfo>>,
                <<StreamInfo, OldPicture>> }
              \cup {<<StreamInfo, [Type |-> "VorbisComment", Data |-> x]>> : x \in ShortPayloads}
              \cup {<<StreamInfo, OldPicture, [Type |-> "VorbisComment", Data |-> ShortEntry]>>}}
    \cup {[ok |-> FALSE, meta |-> <<>>]}

\* the image next to the file: absent, a JPEG, a JPEG of 2^32 + 2 bytes, a
\* file that cannot be opened, one that is no image, one that fails to be read
CoverFiles ==
    { [exists |-> FALSE, opens |-> FALSE, decodes |-> FALSE, reads |-> FALSE,
       w |-> 0, h |-> 0, data |-> <<>>],
      [exists |-> TRUE, opens |-> TRUE, decodes |-> TRUE, reads |-> TRUE,
       w |-> 640, h |-> 480, data |-> JpegData],
      [exists |-> TRUE, opens |-> TRUE, decodes |-> TRUE, reads |-> TRUE,
       w |-> 640, h |-> 480, data |-> Cat(JpegData, HugeZero)],
      [exists |-> TRUE, opens |-> FALSE, decodes |-> FALSE, reads |-> FALSE,
       w |-> 0, h |-> 0, data |-> <<>>],
      [exists |-> TRUE, opens |-> TRUE, decodes |-> FALSE, reads |-> FALSE,
       w |-> 0, h |-> 0, data |-> Str(<<0>>)],
      [exists |-> TRUE, opens |-> TRUE, decodes |-> TRUE, reads |-> FALSE,
       w |-> 1, h |-> 1, data |-> JpegData] }

FixConfigs ==
    [FixMBIDs : BOOLEAN, EmbedCover : BOOLEAN, Write : BOOLEAN, MergeTags : {DefaultTags}]


\* ---------------------------------------------------------------- state
\* files, dirs   the file system: regular files (mtime, content) and directories
\* now           the clock that stamps written files
\* runs          program runs started so far
\* pc            where the current run is: idle, walk, afterwalk, done (returned),
\*               exited (os.Exit(1)), killed (interrupted in the encoder)
\* cfg           the Config of the current run and its input path
\* todo          the files the walk has still to hand to the per-file step
\* processed     the files handed to convertOpus in this run
\* conv, prune   what the last convertOpus / pruneOutput call of this run did
\* log           the calls of this run in order
\* codecIn, codecOut   the input of one codec call and what it returned
\* blocks, mergeTags   a block list in memory and the merge targets
\* mbHist              the processMBIDs calls made on blocks, in order
\* flacFile, coverFile the audio file on disk and the image next to it
\* fixHist             the fixFlac calls made on flacFile, in order
\* msgChan             the channel between the worker and the progress display
\* model               the display's model: state, total, processed, quitting, interrupted
\* worker              processFiles: the messages its current step has still to
\*                     send, and what it has sent so far
\* waits, inbox        the receives outstanding on msgChan, and the messages
\*                     received and not yet handed to Update
VARIABLES files, dirs, now, runs, pc, cfg, todo, processed, conv, prune, log,
          codecIn, codecOut, blocks, mergeTags, mbHist, flacFile, coverFile, fixHist,
          msgChan, model, worker, waits, inbox

syncVars == <<files, dirs, now, runs, pc, cfg, todo, processed, conv, prune, log>>

tagVars == <<codecIn, codecOut, blocks, mergeTags, mbHist, flacFile, coverFile, fixHist>>

uiVars == <<msgChan, model, worker, waits, inbox>>

vars == <<syncVars, tagVars, uiVars>>

NoFlac == [ok |-> FALSE, meta |-> <<>>]
NoCover == [exists |-> FALSE, opens |-> FALSE, decodes |-> FALSE, reads |-> FALSE,
            w |-> 0, h |-> 0, data |-> <<>>]

\* the display before tea.NewProgram, the worker before "go processFiles"
NoModel == [state |-> "counting", total |-> 0, processed |-> 0,
            quitting |-> FALSE, interrupted |-> FALSE, quitOn |-> "none"]
NoWorker == [started |-> FALSE, returned |-> FALSE, exited |-> FALSE, pending |-> <<>>,
             statsSent |-> 0, doneSent |-> 0, sent |-> <<>>]

UiIdle ==
    /\ msgChan = <<>> /\ model = NoModel /\ worker = NoWorker /\ waits = 0 /\ inbox = <<>>

\* the metadata side at rest
TagIdle ==
    /\ codecIn = NoInput /\ codecOut = NoOutput
    /\ blocks = <<>> /\ mergeTags = <<>> /\ mbHist = <<>>
    /\ flacFile = NoFlac /\ coverFile = NoCover /\ fixHist = <<>>
    /\ UiIdle

\* the flag combinations main accepts with --convert-opus (-v excludes the progress
\* bar) and the input paths: the source directory, or one file given absolute or relative
Configs ==
    {[Progress |-> m[1], Verbose |-> m[2], NoPrune |-> i[1],
      ConvertOpus |-> MkPath(TRUE, OutRoot), input |-> i[2]] :
        m \in {<<TRUE, FALSE>>, <<FALSE, FALSE>>, <<FALSE, TRUE>>},
        i \in {<<FALSE, MkPath(FALSE, SrcRoot)>>, <<TRUE, MkPath(FALSE, SrcRoot)>>,
               <<FALSE, MkPath(TRUE, AFlac)>>, <<FALSE, MkPath(FALSE, AFlac)>>}}

NoConfig == [Progress |-> FALSE, Verbose |-> FALSE, NoPrune |-> FALSE,
             ConvertOpus |-> MkPath(TRUE, OutRoot), input |-> MkPath(TRUE, SrcRoot)]

NoFile == [mtime |-> 0, data |-> "none"]

NoConv == [called |-> FALSE, input |-> <<>>, outBefore |-> NoFile,
           res |-> ConvResult(<<>>, {}, FALSE, FALSE, FALSE, <<>>, <<>>, {}, FALSE, FALSE, 0, 0)]

NoPruneCall == [called |-> FALSE, err |-> FALSE, rmFail |-> {}, order |-> <<>>,
                removed |-> {}, inspected |-> {}]

\* output files a previous run or the user left behind
SeedA == OutRoot \o << <<"a", "opus">> >>

SeedX == OutRoot \o << <<"p">>, <<"q">>, <<"x", "opus">> >>

SeedCover == OutRoot \o << <<"p">>, <<"cover", "jpg">> >>

SeedY == OutRoot \o << <<"", "st">>, <<"y", "opus">> >>

\* the trees a first run can find: the source files present, the output files
\* present, and the modification time of the output a.opus
Layouts ==
    { <<SrcFiles, {}, 0>>,
      <<SrcFiles, {SeedA, SeedX, SeedCover, SeedY}, 1>>,
      <<SrcFiles, {SeedA, SeedX, SeedY}, 2>>,
      <<{}, {SeedA, SeedX}, 1>> }

AncestorsOf(S) == UNION {MkdirAll({}, Front(p)) : p \in S}

Init ==
    /\ \E l \in Layouts :
        /\ files = [p \in l[1] \cup l[2] |->
                      IF p \in SrcFiles THEN [mtime |-> 2, data |-> "flac"]
                      ELSE IF p = SeedA THEN [mtime |-> l[3], data |-> "orig"]
                      ELSE [mtime |-> 1, data |-> "orig"]]
        /\ dirs = AncestorsOf(SrcFiles \cup l[2])
    /\ now = 2
    /\ runs = 0
    /\ TagIdle
    /\ pc = "idle"
    /\ cfg = NoConfig
    /\ todo = <<>>
    /\ processed = <<>>
    /\ conv = NoConv
    /\ prune = NoPruneCall
    /\ log = <<>>

Ended == pc \in {"idle", "done", "exited", "killed"}

\* info.IsDir()
IsDir(p) == Resolve(p) \in dirs

\* the walk's filter: !d.IsDir() && strings.EqualFold(filepath.Ext(filePath), ".flac")
IsFlacFile(fs, p) == p \in DOMAIN fs /\ EqualFold(ExtOf(Last(p)), <<"flac">>)

\* the files a walk of the input hands to the per-file step, in walk order, each
\* as the input path joined with the names below it
FlacWalk(fs, input) ==
    LET root  == Resolve(input)
        found == SortPaths({p \in DOMAIN fs : IsPrefix(root, p) /\ IsFlacFile(fs, p)})
    IN  [i \in 1..Len(found) |->
            JoinPath(input, SubSeq(found[i], Len(root) + 1, Len(found[i])))]

countFlacFiles(fs, input) ==
    IF ~IsDir(input)
    THEN IF EqualFold(ExtOf(Last(input.segs)), <<"flac">>) THEN 1 ELSE 0
    ELSE Len(FlacWalk(fs, input))

\* main up to the start of the walk; with the progress bar, the model's Init and
\* its countMsg, which quits without starting the worker when nothing was counted
StartRunCore(c) ==
    /\ Ended
    /\ runs < MaxRuns
    /\ Exists(files, dirs, Resolve(c.input))
    /\ runs' = runs + 1
    /\ now' = now + 1
    /\ cfg' = c
    /\ processed' = <<>>
    /\ conv' = NoConv
    /\ prune' = NoPruneCall
    /\ log' = <<>>
    /\ IF c.Progress /\ countFlacFiles(files, c.input) = 0
       THEN pc' = "done" /\ todo' = <<>>
       ELSE IF IsDir(c.input)
       THEN /\ todo' = FlacWalk(files, c.input)
            /\ pc' = IF todo' = <<>> THEN "afterwalk" ELSE "walk"
       ELSE /\ todo' = <<c.input>>
            /\ pc' = "walk"
    /\ UNCHANGED <<files, dirs>>

StartRun(c) == StartRunCore(c) /\ UNCHANGED tagVars /\ UNCHANGED uiVars

\* the inputRoot the caller hands to convertOpus
InputRootOf(c) ==
    IF IsDir(c.input) THEN AbsPath(c.input)
    ELSE IF c.Progress THEN DirPath(c.input)
    ELSE AbsPath(DirPath(c.input))

\* a per-file error ends the run: the plain walk returns it and main exits,
\* the worker logs it and goes on
ErrorStopsWalk(c) == ~c.Progress

\* the walk callback (or the single-file branch) on the next file
WalkStepCore(outcome) ==
    /\ pc = "walk"
    /\ todo # <<>>
    /\ LET f == Head(todo)
           r == convertOpus(f, InputRootOf(cfg), cfg, files, dirs, now, outcome)
       IN  /\ files' = r.files
           /\ dirs' = r.dirs
           /\ conv' = [called |-> TRUE, input |-> f,
                       outBefore |-> IF r.outputFile \in DOMAIN files
                                     THEN files[r.outputFile] ELSE NoFile,
                       res |-> [r EXCEPT !.files = <<>>, !.dirs = {}]]
           /\ processed' = Append(processed, f)
           /\ log' = Append(log, "convert")
           /\ todo' = Tail(todo)
           /\ pc' = IF r.killed THEN "killed"
                    ELSE IF r.err /\ ErrorStopsWalk(cfg) THEN "exited"
                    ELSE IF Tail(todo) = <<>> THEN "afterwalk"
                    ELSE "walk"
    /\ UNCHANGED <<now, runs, cfg, prune>>

WalkStep(outcome) == WalkStepCore(outcome) /\ UNCHANGED tagVars /\ UNCHANGED uiVars

\* mutant: --no-prune is ignored
PruneEnabled_ignoresNoPrune(c) == IsDir(c.input)

\* config.ConvertOpus != "" && !config.NoPrune, in the directory branch
PruneEnabled(c) == IsDir(c.input) /\ ~c.NoPrune

\* what follows the walk: the prune pass, when enabled
AfterWalkCore(rmFail) ==
    /\ pc = "afterwalk"
    /\ IF PruneEnabled(cfg)
       THEN LET r == pruneOutput(AbsPath(cfg.input), cfg.ConvertOpus, files, dirs, rmFail)
            IN  /\ files' = r.files
                /\ dirs' = r.dirs
                /\ prune' = [called |-> TRUE, err |-> r.err, rmFail |-> rmFail,
                             order |-> r.order,
                             removed |-> r.removed, inspected |-> r.inspected]
                /\ log' = Append(log, "prune")
       ELSE /\ rmFail = {}
            /\ UNCHANGED <<files, dirs, prune, log>>
    /\ pc' = "done"
    /\ UNCHANGED <<now, runs, cfg, todo, processed, conv>>

AfterWalk(rmFail) == AfterWalkCore(rmFail) /\ UNCHANGED tagVars /\ UNCHANGED uiVars

\* the os.Remove calls of a prune pass that may fail: none, or the one on x.opus
RmFailSets == {{}, {SeedX}}

Next ==
    \/ \E c \in Configs : StartRun(c)
    \/ \E o \in Outcomes : WalkStep(o)
    \/ \E s \in RmFailSets : AfterWalk(s)

Spec == Init /\ [][Next]_vars

\* ---------------------------------------------- the metadata state machines
\* Three more specifications run the metadata side of the program, each on
\* its own variables, the variables of the others at rest.
SyncIdle ==
    /\ files = <<>> /\ dirs = {} /\ now = 0 /\ runs = 0 /\ pc = "idle"
    /\ cfg = NoConfig /\ todo = <<>> /\ processed = <<>>
    /\ conv = NoConv /\ prune = NoPruneCall /\ log = <<>>

\* SpecCodec: one encoding or decoding of one input
InitCodec ==
    /\ codecIn \in CodecInputs
    /\ codecOut = NoOutput
    /\ blocks = <<>> /\ mergeTags = <<>> /\ mbHist = <<>>
    /\ flacFile = NoFlac /\ coverFile = NoCover /\ fixHist = <<>>
    /\ SyncIdle /\ UiIdle

\* ParseVorbisComment(b.Marshal())
EncodeThenDecode(mem) ==
    /\ codecIn.op = "encode" /\ ~codecOut.done
    /\ codecOut' = [done |-> TRUE, payload |-> Marshal(codecIn.block),
                    parsed |-> ParseVorbisComment(Marshal(codecIn.block), mem), again |-> <<>>]
    /\ UNCHANGED <<codecIn, blocks, mergeTags, mbHist, flacFile, coverFile, fixHist>>
    /\ UNCHANGED syncVars /\ UNCHANGED uiVars

\* ParseVorbisComment(x) and, when it succeeds, Marshal of what it returned
DecodeThenEncode(mem) ==
    /\ codecIn.op = "decode" /\ ~codecOut.done
    /\ LET p == ParseVorbisComment(codecIn.payload, mem) IN
       codecOut' = [done |-> TRUE, payload |-> codecIn.payload, parsed |-> p,
                    again |-> IF p.err \/ p.fatal THEN <<>> ELSE Marshal(p.block)]
    /\ UNCHANGED <<codecIn, blocks, mergeTags, mbHist, flacFile, coverFile, fixHist>>
    /\ UNCHANGED syncVars /\ UNCHANGED uiVars

EncodePicture ==
    /\ codecIn.op = "picture" /\ ~codecOut.done
    /\ codecOut' = [done |-> TRUE, payload |-> PictureMarshal(codecIn.pic),
                    parsed |-> NoParse, again |-> <<>>]
    /\ UNCHANGED <<codecIn, blocks, mergeTags, mbHist, flacFile, coverFile, fixHist>>
    /\ UNCHANGED syncVars /\ UNCHANGED uiVars

NextCodec ==
    \/ \E mem \in MemSizes : EncodeThenDecode(mem)
    \/ \E mem \in MemSizes : DecodeThenEncode(mem)
    \/ EncodePicture

SpecCodec == InitCodec /\ [][NextCodec]_vars

\* SpecMerge: processMBIDs called again and again on one block list
InitMerge ==
    /\ blocks \in MergeMetas
    /\ mergeTags \in TagLists
    /\ mbHist = <<>>
    /\ codecIn = NoInput /\ codecOut = NoOutput
    /\ flacFile = NoFlac /\ coverFile = NoCover /\ fixHist = <<>>
    /\ SyncIdle /\ UiIdle

CallProcessMBIDs(mem) ==
    /\ Len(mbHist) < MaxCalls
    /\ LET r == processMBIDs(blocks, mergeTags, mem) IN
        /\ blocks' = r.meta
        /\ mbHist' = Append(mbHist, [before |-> blocks, res |-> r])
    /\ UNCHANGED <<mergeTags, codecIn, codecOut, flacFile, coverFile, fixHist>>
    /\ UNCHANGED syncVars /\ UNCHANGED uiVars

NextMerge == \E mem \in MemSizes : CallProcessMBIDs(mem)

SpecMerge == InitMerge /\ [][NextMerge]_vars

\* SpecFix: fixFlac run on one file, once per program run
InitFix ==
    /\ flacFile \in FlacFiles
    /\ coverFile \in CoverFiles
    /\ fixHist = <<>>
    /\ codecIn = NoInput /\ codecOut = NoOutput
    /\ blocks = <<>> /\ mergeTags = <<>> /\ mbHist = <<>>
    /\ SyncIdle /\ UiIdle

CallFixFlac(config, saveOk, mem) ==
    /\ Len(fixHist) < MaxFixRuns
    /\ LET r == fixFlac(flacFile, coverFile, config, saveOk, mem) IN
        /\ flacFile' = r.file
        /\ fixHist' = Append(fixHist, [config |-> config, res |-> r])
    /\ UNCHANGED <<coverFile, codecIn, codecOut, blocks, mergeTags, mbHist>>
    /\ UNCHANGED syncVars /\ UNCHANGED uiVars

NextFix ==
    \E config \in FixConfigs, saveOk \in BOOLEAN, mem \in MemSizes :
        CallFixFlac(config, saveOk, mem)

SpecFix == InitFix /\ [][NextFix]_vars

\* ------------------------------------------------------ the path mapping
\* SpecPath: the same runs on source trees chosen for their names: two files
\* that differ in the case of the extension only, names with more than one
\* dot, the same name in two directories, a name that is all extension.
AUpper == SrcRoot \o << <<"a", "FLAC">> >>
ABFlac == SrcRoot \o << <<"a", "b", "flac">> >>
DAFlac == SrcRoot \o << <<"d">>, <<"a", "flac">> >>
DotFlac == SrcRoot \o << <<"", "flac">> >>
AOpusFlac == SrcRoot \o << <<"a", "opus", "flac">> >>

PathTrees ==
    { {AFlac, AUpper}, {AFlac, ABFlac, DAFlac}, {DotFlac, AOpusFlac}, {AFlac, BFlac} }

InitPath ==
    /\ \E t \in PathTrees :
        /\ files = [p \in t |-> [mtime |-> 2, data |-> "flac"]]
        /\ dirs = AncestorsOf(t)
    /\ now = 2 /\ runs = 0 /\ pc = "idle"
    /\ cfg = NoConfig /\ todo = <<>> /\ processed = <<>>
    /\ conv = NoConv /\ prune = NoPruneCall /\ log = <<>>
    /\ TagIdle

SpecPath == InitPath /\ [][Next]_vars

\* ------------------------------------------------- the progress display
\* SpecProgress: one program run with the progress bar.  The worker
\* (processFiles) and the display (model.Update, fed by waitForActivity) run
\* side by side and share msgChan; the worker's steps are the steps of the walk.
ChanCap == 100

StatsOf(converted) == [type |-> "stats", Converted |-> converted]
StatusLine == [type |-> "status", Converted |-> FALSE]
DoneLine == [type |-> "done", Converted |-> FALSE]

FileMessages_onlyOk(r) ==
    IF r.err THEN <<StatusLine>> ELSE <<StatsOf(r.converted)>>

\* what the worker sends for one file: the "Converting" line of convertOpus
\* when it got that far, the warning when the call failed, then the StatsMsg
FileMessages(r) ==
    (IF r.encCalls > 0 THEN <<StatusLine>> ELSE <<>>)
    \o (IF r.err THEN <<StatusLine>> ELSE <<>>)
    \o <<StatsOf(r.converted)>>

\* the process is gone: main returned, or it was interrupted in the encoder
Gone == worker.exited \/ pc = "killed"

\* main, tea.NewProgram, model.Init with countFilesCmd, and Update on the
\* countMsg or errMsg it returns: the worker is started and one receive issued
Launch(c, countOk) ==
    /\ runs = 0
    /\ c.Progress
    /\ StartRunCore(c)
    /\ IF ~countOk
       THEN /\ model' = [NoModel EXCEPT !.quitting = TRUE, !.quitOn = "err"]
            /\ worker' = NoWorker /\ waits' = 0
       ELSE IF countFlacFiles(files, c.input) = 0
       THEN /\ model' = [NoModel EXCEPT !.quitting = TRUE, !.quitOn = "count"]
            /\ worker' = NoWorker /\ waits' = 0
       ELSE /\ model' = [NoModel EXCEPT !.state = "processing",
                                        !.total = countFlacFiles(files, c.input)]
            /\ worker' = [NoWorker EXCEPT !.started = TRUE]
            /\ waits' = 1
    /\ msgChan' = <<>> /\ inbox' = <<>>
    /\ UNCHANGED tagVars

\* the walk callback of processFiles (or its single-file branch) on the next file
WorkerFile(outcome) ==
    /\ worker.started /\ ~worker.returned /\ ~Gone /\ worker.pending = <<>>
    /\ WalkStepCore(outcome)
    /\ worker' = [worker EXCEPT !.pending = IF conv'.res.killed THEN <<>>
                                            ELSE FileMessages(conv'.res)]
    /\ UNCHANGED <<msgChan, model, waits, inbox>>
    /\ UNCHANGED tagVars

\* the end of processFiles: the prune pass when enabled, its warning, and the
\* deferred doneMsg
WorkerReturn(rmFail) ==
    /\ worker.started /\ ~worker.returned /\ ~Gone /\ worker.pending = <<>>
    /\ AfterWalkCore(rmFail)
    /\ worker' = [worker EXCEPT !.returned = TRUE,
                                !.pending = (IF prune'.called /\ prune'.err
                                             THEN <<StatusLine>> ELSE <<>>) \o <<DoneLine>>]
    /\ UNCHANGED <<msgChan, model, waits, inbox>>
    /\ UNCHANGED tagVars

\* msgChan <- msg: blocks while the buffer is full
WorkerSend ==
    /\ worker.pending # <<>> /\ ~Gone
    /\ Len(msgChan) < ChanCap
    /\ msgChan' = Append(msgChan, Head(worker.pending))
    /\ worker' = [worker EXCEPT
                    !.pending = Tail(worker.pending),
                    !.sent = Append(worker.sent, Head(worker.pending).type),
                    !.statsSent = @ + (IF Head(worker.pending).type = "stats" THEN 1 ELSE 0),
                    !.doneSent = @ + (IF Head(worker.pending).type = "done" THEN 1 ELSE 0)]
    /\ UNCHANGED <<model, waits, inbox>>
    /\ UNCHANGED syncVars /\ UNCHANGED tagVars

\* waitForActivity: one outstanding command returns <-sub to the event loop
Receive ==
    /\ waits > 0 /\ msgChan # <<>> /\ ~Gone
    /\ msgChan' = Tail(msgChan)
    /\ inbox' = Append(inbox, Head(msgChan))
    /\ waits' = waits - 1
    /\ UNCHANGED <<model, worker>>
    /\ UNCHANGED syncVars /\ UNCHANGED tagVars

\* the commands Update returns for a message: how many waitForActivity
WaitsAfter(type) == IF type \in {"stats", "status"} THEN 1 ELSE 0

\* model.Update on a StatsMsg, statusMsg or doneMsg the event loop hands it
Update(i) ==
    /\ i \in 1..Len(inbox) /\ ~model.quitting /\ ~Gone
    /\ LET msg == inbox[i] IN
        /\ model' =
             CASE msg.type = "stats" ->
                    IF model.state = "processing"
                    THEN [model EXCEPT !.processed = @ + 1]
                    ELSE model
               [] msg.type = "status" -> model
               [] OTHER -> [model EXCEPT !.quitting = TRUE, !.quitOn = "done"]
        /\ waits' = waits + WaitsAfter(msg.type)
    /\ inbox' = SubSeq(inbox, 1, i - 1) \o SubSeq(inbox, i + 1, Len(inbox))
    /\ UNCHANGED <<msgChan, worker>>
    /\ UNCHANGED syncVars /\ UNCHANGED tagVars

\* model.Update on the KeyMsg of ctrl+c or q
Interrupt ==
    /\ runs > 0 /\ ~model.quitting /\ ~Gone
    /\ model' = [model EXCEPT !.interrupted = TRUE, !.quitting = TRUE, !.quitOn = "key"]
    /\ UNCHANGED <<msgChan, worker, waits, inbox>>
    /\ UNCHANGED syncVars /\ UNCHANGED tagVars

\* tea.Quit: p.Run returns, runWithProgress and main return, and the worker,
\* wherever it is, ends with the process
MainReturns ==
    /\ model.quitting /\ ~Gone
    /\ worker' = [worker EXCEPT !.exited = TRUE]
    /\ UNCHANGED <<msgChan, model, waits, inbox>>
    /\ UNCHANGED syncVars /\ UNCHANGED tagVars

NextProgress ==
    \/ \E c \in Configs, countOk \in BOOLEAN : Launch(c, countOk)
    \/ \E o \in Outcomes : WorkerFile(o)
    \/ \E s \in RmFailSets : WorkerReturn(s)
    \/ WorkerSend
    \/ Receive
    \/ \E i \in 1..Len(inbox) : Update(i)
    \/ Interrupt
    \/ MainReturns

SpecProgress == Init /\ [][NextProgress]_vars

\* ================================================================ claims
\* Vocabulary of the claims, stated on the trees rather than taken from the code.

\* the names of an absolute path below a root
Below(root, p) == SubSeq(p, Len(root) + 1, Len(p))

\* <output_root>/<relative path of the source with the final extension replaced by .opus>
OutputPathOf(src) ==
    LET rel == Below(SrcRoot, src)
    IN  OutRoot \o Front(rel) \o <<Append(Front(Last(rel)), "opus")>>

\* <output>.tmp
TmpOf(out) == Front(out) \o <<Append(Last(out), "tmp")>>

\* the counterpart source of an output file: same relative path, source extension
CounterpartOf(out) ==
    LET rel == Below(OutRoot, out)
        n   == Last(rel)
    IN  SrcRoot \o Front(rel) \o <<Append(IF Len(n) > 1 THEN Front(n) ELSE n, "flac")>>

\* p lies in the output tree
InOutput(p) == IsPrefix(OutRoot, p) /\ p # OutRoot

\* p is, or lies below, a directory of the output tree whose name begins with '.'
InHiddenDir(p) ==
    /\ InOutput(p)
    /\ \E k \in (Len(OutRoot) + 1)..Len(p) :
          /\ Len(p[k]) > 1 /\ p[k][1] = ""
          /\ (k < Len(p) \/ p \in dirs)

\* the source files a walk accepts that exist
AcceptedSources == {f \in SrcFiles : f \in DOMAIN files}

\* the state right after a convertOpus call returned (or was interrupted)
JustConverted == conv.called /\ pc \in {"walk", "afterwalk", "exited", "killed"}

\* the state right after a pruneOutput call returned
JustPruned == prune.called /\ pc = "done"

FileAt(fs, p) == IF p \in DOMAIN fs THEN fs[p] ELSE NoFile

\* C1: the encoder's only destination is <output>.tmp; a path of the output tree
\* that is not such a temporary file is created or changed only by a convertOpus
\* call whose encoder exited successfully, and then it receives the complete
\* encoding while the temporary file disappears (the rename); when the encoder
\* fails or is interrupted the final output path keeps its prior state.
C1_AtomicWrite ==
    [][ /\ pc = "walk" =>
            LET r   == conv'.res
                out == r.outputFile
            IN  /\ \A d \in r.encDests : d = TmpOf(out) /\ d # out
                /\ \A p \in DOMAIN files \cup DOMAIN files' :
                      (~HasOpusTmpSuffix(p) /\ FileAt(files', p) # FileAt(files, p)) =>
                          /\ p = out
                          /\ r.encCalls = 1 /\ ~r.encFailed /\ ~r.killed
                          /\ files'[p] = [mtime |-> now, data |-> "opus"]
                          /\ TmpOf(out) \notin DOMAIN files'
                /\ (r.encFailed \/ r.killed) => FileAt(files', out) = FileAt(files, out)
        /\ pc # "walk" =>
            \A p \in DOMAIN files' : p \in DOMAIN files /\ files'[p] = files[p]
      ]_vars

\* C1 witness: an encoder failure left a partial temporary file next to a prior
\* output that still has its content and modification time
C1_Witness ==
    /\ JustConverted
    /\ conv.res.encFailed
    /\ conv.outBefore # NoFile
    /\ FileAt(files, conv.res.outputFile) = conv.outBefore
    /\ FileAt(files, TmpOf(conv.res.outputFile)).data = "partial"

\* C2: a convertOpus call that gets as far as the staleness check runs the encoder
\* zero times when the output exists with T2 >= T1, and exactly once when the
\* output exists with T2 < T1 or does not exist.
C2_Staleness ==
    (JustConverted /\ conv.res.reached) =>
        LET t1 == files[Resolve(conv.input)].mtime
        IN  IF conv.outBefore # NoFile /\ conv.outBefore.mtime >= t1
            THEN conv.res.encCalls = 0
            ELSE conv.res.encCalls = 1

\* C2 witness: an existing output with T2 = T1 was skipped
C2_Witness ==
    /\ JustConverted /\ conv.res.reached
    /\ conv.outBefore # NoFile
    /\ conv.outBefore.mtime = files[Resolve(conv.input)].mtime
    /\ conv.res.encCalls = 0

\* C3: whenever the encoder exits with a failure, convertOpus returns an error and
\* <output>.tmp does not exist afterwards, in every output mode.
C3_FailureCleansTemp ==
    (JustConverted /\ conv.res.encFailed) =>
        /\ conv.res.err
        /\ TmpOf(conv.res.outputFile) \notin DOMAIN files

\* C4: in a directory run that ended without being interrupted, every FLAC file
\* of the tree was handed to the per-file step, whatever failed on the way.
C4_WalkContinues ==
    (IsDir(cfg.input) /\ pc \in {"done", "exited"} /\ runs > 0) =>
        \A f \in AcceptedSources : \E i \in 1..Len(processed) : Resolve(processed[i]) = f

\* C5 as claimed: after a prune pass without error no file of any type remains in
\* the output tree, outside hidden directories, without its counterpart source.
C5_NoOrphanOfAnyType ==
    (JustPruned /\ ~prune.err) =>
        \A p \in DOMAIN files :
            (InOutput(p) /\ ~InHiddenDir(p)) => CounterpartOf(p) \in DOMAIN files

\* C5 amended: after a prune pass without error no file whose extension is .opus
\* (compared case-insensitively) remains in the output tree, outside hidden
\* directories, without its counterpart source.
C5_NoOrphanOpus ==
    (JustPruned /\ ~prune.err) =>
        \A p \in DOMAIN files :
            (InOutput(p) /\ ~InHiddenDir(p) /\ Len(Last(p)) > 1
                /\ Lower(Last(Last(p))) = "opus") => CounterpartOf(p) \in DOMAIN files

\* C5 witness: a prune pass without error removed the orphan p/q/x.opus
C5_Witness == JustPruned /\ ~prune.err /\ SeedX \in prune.removed

\* C6: the prune pass of a run removes no output file of a source file that the
\* walk accepts and that still exists.
C6_KeepsMatchedOutput ==
    JustPruned => \A f \in AcceptedSources : OutputPathOf(f) \notin prune.removed

\* the number of entries of a log that are e
Count(l, e) == Cardinality({i \in 1..Len(l) : l[i] = e})

\* C7: a run calls pruneOutput at most once, as its last call and only after the
\* walk has handed every file to convertOpus and each call has returned; it does
\* not call it when pruning is disabled or the input is a single file.
C7_PruneAfterConversions ==
    /\ Count(log, "prune") <= 1
    /\ \A i \in 1..Len(log) : log[i] = "prune" => i = Len(log)
    /\ Count(log, "prune") = 1 =>
          /\ todo = <<>>
          /\ Count(log, "convert") = Cardinality(AcceptedSources)
          /\ IsDir(cfg.input)
          /\ ~cfg.NoPrune
    /\ Count(log, "prune") = 1 <=> prune.called

\* C7 witness: a prune pass that followed two or more conversions
C7_Witness == JustPruned /\ Count(log, "convert") >= 2 /\ Last(log) = "prune"

\* C8 as claimed: after a prune pass without error no temporary file of any
\* accepted source file exists.
C8_NoTempLeft ==
    (JustPruned /\ ~prune.err) =>
        \A f \in SrcFiles : TmpOf(OutputPathOf(f)) \notin DOMAIN files

\* C8 amended: after a prune pass without error no temporary file exists of an
\* accepted source file whose output path is not below a directory whose name
\* begins with '.'.
C8_NoTempLeftOutsideHidden ==
    (JustPruned /\ ~prune.err) =>
        \A f \in SrcFiles :
            ~InHiddenDir(OutputPathOf(f)) => TmpOf(OutputPathOf(f)) \notin DOMAIN files

\* C8 witness: a prune pass without error removed a temporary file
C8_Witness ==
    /\ JustPruned /\ ~prune.err
    /\ \E f \in SrcFiles : TmpOf(OutputPathOf(f)) \in prune.removed

\* C9: after a prune pass without error no directory of the output tree outside
\* hidden directories is left empty, every directory was attempted after all its
\* descendants, every file and directory that remains still has all its parent
\* directories, and a prune pass fails only if the output root is missing or a
\* file removal failed.
C9_EmptyDirsRemoved ==
    JustPruned =>
        /\ ~prune.err =>
              /\ \A d \in dirs : (InOutput(d) /\ ~InHiddenDir(d)) => ~IsEmptyDir(files, dirs, d)
              /\ \A i, j \in 1..Len(prune.order) :
                    (i # j /\ IsPrefix(prune.order[i], prune.order[j])) => j < i
        /\ \A q \in DOMAIN files \cup dirs :
              \A k \in 1..(Len(q) - 1) : SubSeq(q, 1, k) \in dirs
        /\ prune.err => (OutRoot \notin dirs \/ prune.rmFail # {})

\* C9 witness: the orphan p/q/x.opus was removed and then the nested directories
\* p/q and p, both left without entries, in that order
C9_Witness ==
    /\ JustPruned /\ ~prune.err
    /\ SeedX \in prune.removed
    /\ \E i, j \in 1..Len(prune.order) :
          i < j /\ prune.order[i] = Front(SeedX) /\ prune.order[j] = Front(Front(SeedX))
    /\ Front(SeedX) \notin dirs
    /\ Front(Front(SeedX)) \notin dirs

\* C10: a prune pass leaves every hidden directory of the output tree and
\* everything below it as it was, and neither inspects, removes nor schedules
\* any of these paths.
C10_HiddenUntouched ==
    [][ pc = "afterwalk" =>
          /\ \A p \in DOMAIN files \cup DOMAIN files' \cup dirs \cup dirs' :
                InHiddenDir(p) =>
                    /\ FileAt(files', p) = FileAt(files, p)
                    /\ (p \in dirs') = (p \in dirs)
          /\ \A p \in prune'.inspected \cup prune'.removed
                      \cup {prune'.order[i] : i \in 1..Len(prune'.order)} :
                ~InHiddenDir(p)
      ]_vars

\* C10 witness: a prune pass removed files while an orphan below the hidden
\* directory .st stayed
C10_Witness == JustPruned /\ prune.removed # {} /\ SeedY \in DOMAIN files

\* ---------------------------------------------------- claims on the metadata
\* Vocabulary of the merge claims, stated on the comment lists: the key and
\* the value of an entry, keys compared without regard to case.
HasEq(c) == Len(SplitN2(c)) = 2
KeyOf(c) == SplitN2(c)[1]
ValueOf(c) == SplitN2(c)[2]
FoldEq(k1, k2) == ToUpper(k1) = ToUpper(k2)
HasKey(c, t) == HasEq(c) /\ FoldEq(KeyOf(c), t)
Targeted(c, tags) == \E i \in 1..Len(tags) : HasKey(c, tags[i])
EntriesOf(cs, t) == SelectSeq(cs, LAMBDA c : HasKey(c, t))
ValuesFor(cs, t) == [i \in 1..Len(EntriesOf(cs, t)) |-> ValueOf(EntriesOf(cs, t)[i])]
CommentsOf(meta) ==
    ParseVorbisComment(meta[FirstBlock(meta, "VorbisComment")].Data, AmpleMem).block.Comments
MbCalls == {mbHist[i] : i \in 1..Len(mbHist)}
\* the target keys that have a value, each once, in the order of the list
KeysWithValue(cs, tags) ==
    SelectSeq([i \in 1..Len(tags) |-> [t |-> tags[i], first |-> \A j \in 1..(i - 1) : ~FoldEq(tags[j], tags[i])]],
              LAMBDA e : e.first /\ EntriesOf(cs, e.t) # <<>>)
ExpectedMerge(cs, tags) ==
    SelectSeq(cs, LAMBDA c : ~Targeted(c, tags))
    \o [i \in 1..Len(KeysWithValue(cs, tags)) |->
          Entry(KeysWithValue(cs, tags)[i].t, JoinPlus(ValuesFor(cs, KeysWithValue(cs, tags)[i].t)))]

\* C11: for any comment block and any merge-target list, the comment list the
\* merge produces is every non-target entry (entries without "=" included) in
\* its original order, then one entry per target key that has a value, in the
\* order of the target list: KEY=value, or KEY=v1+v2+... in encounter order.
C11_MergeShape ==
    \A h \in MbCalls :
        h.res.parsed => h.res.newComments = ExpectedMerge(CommentsOf(h.before), mergeTags)

\* C12: processMBIDs returns modified exactly when some merge-target key has two
\* or more values in the block, and a call that returns modified = false leaves
\* the payload of the block as it was.
C12_ModifiedIffMultiValued ==
    \A h \in MbCalls :
        /\ h.res.parsed =>
             (h.res.modified <=>
                \E i \in 1..Len(mergeTags) :
                    Len(ValuesFor(CommentsOf(h.before), mergeTags[i])) >= 2)
        /\ ~h.res.modified => h.res.meta = h.before

\* C13: an entry whose key equals a listed target key in any letter case, of
\* the file and of the configuration, is collected and merged, and the merged
\* entry carries the key exactly as the configuration writes it.
C13_CaseInsensitiveTargets ==
    \A h \in MbCalls :
        h.res.parsed =>
            \A i \in 1..Len(mergeTags) :
                Len(ValuesFor(CommentsOf(h.before), mergeTags[i])) >= 2 =>
                    /\ EntriesOf(CommentsOf(h.res.meta), mergeTags[i]) # <<>>
                    /\ \A j \in 1..Len(EntriesOf(CommentsOf(h.res.meta), mergeTags[i])) :
                          EntriesOf(CommentsOf(h.res.meta), mergeTags[i])[j] =
                            Entry(mergeTags[i],
                                  JoinPlus(ValuesFor(CommentsOf(h.before), mergeTags[i])))

\* the keys of a comment list, in upper case, and the warnings given for one
UpperKeys(cs) == {ToUpper(KeyOf(cs[i])) : i \in {j \in 1..Len(cs) : HasEq(cs[j])}}
WarningsFor(h, key) == SelectSeq(h.res.warnings, LAMBDA w : w.key = key)
IsTargetKey(key, tags) == \E i \in 1..Len(tags) : FoldEq(tags[i], key)
InNamespace(key) == TakeB(key, BLen(MBPrefix)) = MBPrefix

\* C14: a non-target key of the MUSICBRAINZ_ namespace that occurs in more than
\* one entry gets exactly one warning, with its count; its entries stay in the
\* output as they were and do not make modified true.  A key with one value,
\* and a multi-valued key outside the namespace and the target list, gets no
\* warning and is not merged.
C14_NamespaceWarning ==
    \A h \in MbCalls :
        h.res.parsed =>
            /\ \A key \in UpperKeys(CommentsOf(h.before)) :
                 LET n == Len(EntriesOf(CommentsOf(h.before), key))
                     target == IsTargetKey(key, mergeTags)
                 IN  /\ (~target /\ n > 1 /\ InNamespace(key)) =>
                          /\ Len(WarningsFor(h, key)) = 1
                          /\ WarningsFor(h, key)[1].count = n
                     /\ (n = 1 \/ (~target /\ ~InNamespace(key))) =>
                          WarningsFor(h, key) = <<>>
                     /\ ~target =>
                          /\ EntriesOf(h.res.newComments, key) = EntriesOf(CommentsOf(h.before), key)
                          /\ EntriesOf(CommentsOf(h.res.meta), key)
                               = EntriesOf(CommentsOf(h.before), key)
            /\ h.res.modified =>
                 \E i \in 1..Len(mergeTags) :
                     Len(ValuesFor(CommentsOf(h.before), mergeTags[i])) >= 2

\* a call that warned about MUSICBRAINZ_TRACKID, found in two entries in two
\* cases, and changed nothing
C14_Witness ==
    \E h \in MbCalls :
        /\ h.res.parsed /\ ~h.res.modified
        /\ h.res.warnings = <<[key |-> TagTrackId, count |-> 2]>>
        /\ EntriesOf(CommentsOf(h.res.meta), TagTrackId)
             = <<Entry(TagTrackId, Str(<<84>>)), Entry(TagTrackIdMixed, Str(<<85>>))>>

\* C15: a second processMBIDs call with the same target list, on the block list
\* the first call left, returns modified = false and leaves the payload as it is.
C15_Idempotent ==
    \A i \in 2..Len(mbHist) :
        ~mbHist[i].res.modified /\ mbHist[i].res.meta = mbHist[i].before

\* ------------------------------------------------------ claims on the codec
\* the number a length field of four bytes holds, low byte first / high byte first
FieldLE(s, off) ==
    LET q == Flat(TakeB(DropB(s, off), BigOf(4)))
    IN  [hi |-> q[3] + 256 * q[4], lo |-> q[1] + 256 * q[2]]
FieldBE(s, off) ==
    LET q == Flat(TakeB(DropB(s, off), BigOf(4)))
    IN  [hi |-> q[2] + 256 * q[1], lo |-> q[4] + 256 * q[3]]

\* the byte length of every string of the block is below 2^32
FitsField(str) == BLen(str).hi < Radix
BlockFits(blk) ==
    FitsField(blk.Vendor) /\ \A j \in 1..Len(blk.Comments) : FitsField(blk.Comments[j])

Encoded == codecIn.op = "encode" /\ codecOut.done
Decoded == codecIn.op = "decode" /\ codecOut.done
PictureEncoded == codecIn.op = "picture" /\ codecOut.done
RoundTripHolds ==
    ~codecOut.parsed.err /\ ~codecOut.parsed.fatal /\ codecOut.parsed.block = codecIn.block

WellFormed == ~codecOut.parsed.err /\ ~codecOut.parsed.fatal /\ codecOut.parsed.rest = <<>>

\* C17: for a well-formed payload x that ParseVorbisComment decodes without
\* error, Marshal of the decoded block is exactly the byte sequence x.
C17_EncodeOfDecode == (Decoded /\ WellFormed) => codecOut.again = codecIn.payload

\* a payload of a vendor and two entries was decoded and encoded back to itself
C17_Witness ==
    /\ Decoded /\ WellFormed
    /\ codecIn.payload = WholePayload
    /\ codecOut.parsed.block = [Vendor |-> Str(<<118>>), Comments |-> <<Str(<<65, 61, 49>>), <<>>>>]
    /\ codecOut.again = codecIn.payload

\* the payload holds a vendor length, a count or an entry length that asks for
\* more bytes than follow it
RECURSIVE EntriesShort(_, _)
EntriesShort(r, n) ==
    IF n = BigOf(0) THEN FALSE
    ELSE IF ~BigLeq(BigOf(4), BLen(r)) THEN TRUE
    ELSE IF ~BigLeq(FieldLE(r, BigOf(0)), BLen(DropB(r, BigOf(4)))) THEN TRUE
    ELSE EntriesShort(DropB(r, BigAdd(BigOf(4), FieldLE(r, BigOf(0)))), BigSub(n, BigOf(1)))

DeclaresTooMuch(x) ==
    /\ BigLeq(BigOf(4), BLen(x))
    /\ \/ ~BigLeq(FieldLE(x, BigOf(0)), BLen(DropB(x, BigOf(4))))
       \/ LET afterVendor == DropB(x, BigAdd(BigOf(4), FieldLE(x, BigOf(0))))
          IN  /\ BigLeq(BigOf(4), BLen(afterVendor))
              /\ EntriesShort(DropB(afterVendor, BigOf(4)), FieldLE(afterVendor, BigOf(0)))

FixCalls == {fixHist[i] : i \in 1..Len(fixHist)}
ShortCommentBlock(meta) ==
    /\ FirstBlock(meta, "VorbisComment") # 0
    /\ DeclaresTooMuch(meta[FirstBlock(meta, "VorbisComment")].Data)

\* C18: when the comment payload declares a vendor length, a count or an entry
\* length for which fewer bytes remain than required, ParseVorbisComment
\* returns an error, processMBIDs returns that error with the block list
\* unchanged, and fixFlac returns the error without saving the file.
C18_TruncatedPayloadError ==
    \A h \in FixCalls :
        (h.config.FixMBIDs /\ h.res.file.ok /\ ShortCommentBlock(h.res.before)) =>
            /\ h.res.mb.called /\ h.res.mb.err
            /\ h.res.mb.meta = h.res.before
            /\ h.res.err /\ ~h.res.saveCalled
            /\ h.res.file.meta = h.res.before

\* every length field of the encoded entries is the byte length of its entry
RECURSIVE EntryFieldsExact(_, _)
EntryFieldsExact(r, cs) ==
    IF cs = <<>> THEN TRUE
    ELSE /\ FieldLE(r, BigOf(0)) = BLen(Head(cs))
         /\ EntryFieldsExact(DropB(r, BigAdd(BigOf(4), BLen(Head(cs)))), Tail(cs))

CommentFieldsExact(out, blk) ==
    /\ FieldLE(out, BigOf(0)) = BLen(blk.Vendor)
    /\ EntryFieldsExact(DropB(out, BigAdd(BigOf(8), BLen(blk.Vendor))), blk.Comments)

PictureFieldsExact(out, p) ==
    LET descAt == BigAdd(BigOf(8), BLen(p.MimeType))
        dataAt == BigAdd(BigAdd(descAt, BigOf(20)), BLen(p.Description))
    IN  /\ FieldBE(out, BigOf(4)) = BLen(p.MimeType)
        /\ FieldBE(out, descAt) = BLen(p.Description)
        /\ FieldBE(out, dataAt) = BLen(p.Data)

\* C19: no encoder writes a length field that differs from the byte length of
\* the vendor string, comment, mime type, description or picture data that
\* follows it.
C19_LengthFieldsExact ==
    /\ Encoded => CommentFieldsExact(codecOut.payload, codecIn.block)
    /\ PictureEncoded => PictureFieldsExact(codecOut.payload, codecIn.pic)

\* the block list holds a picture block
ContainsPicture(meta) == {i \in 1..Len(meta) : meta[i].Type = "Picture"} # {}
CoverCalls == {h \in FixCalls : h.res.cover.called}

\* C20: processCover returns modified = false and leaves the block list as it
\* was whenever the list already holds a picture block, with or without an
\* image next to the file and without touching that image; and, with a
\* warning, whenever the list holds no picture block and the image is absent.
C20_CoverNoOp ==
    \A h \in CoverCalls :
        /\ ContainsPicture(h.res.mb.meta) =>
              /\ ~h.res.cover.modified /\ ~h.res.cover.err
              /\ h.res.cover.meta = h.res.mb.meta
              /\ ~h.res.cover.stat /\ ~h.res.cover.opened /\ ~h.res.cover.warned
        /\ (~ContainsPicture(h.res.mb.meta) /\ ~coverFile.exists) =>
              /\ ~h.res.cover.modified /\ ~h.res.cover.err
              /\ h.res.cover.meta = h.res.mb.meta
              /\ h.res.cover.warned /\ ~h.res.cover.opened

\* processCover ran on a list with a picture block while a readable JPEG lay
\* next to the file, and left the list alone
C20_Witness ==
    \E h \in CoverCalls :
        /\ ContainsPicture(h.res.mb.meta)
        /\ coverFile.exists /\ coverFile.opens /\ coverFile.decodes /\ coverFile.reads
        /\ ~h.res.cover.modified /\ h.res.cover.meta = h.res.mb.meta

\* ------------------------------------------------------ claims on the cover
\* a picture payload read field by field: big-endian lengths, fixed order
PictureOf(x) ==
    LET mimeLen == FieldBE(x, BigOf(4))
        descAt  == BigAdd(BigOf(8), mimeLen)
        descLen == FieldBE(x, descAt)
        sizeAt  == BigAdd(BigAdd(descAt, BigOf(4)), descLen)
        dataLen == FieldBE(x, BigAdd(sizeAt, BigOf(16)))
        dataAt  == BigAdd(sizeAt, BigOf(20))
    IN  [PictureType |-> FieldBE(x, BigOf(0)),
         MimeType    |-> TakeB(DropB(x, BigOf(8)), mimeLen),
         Description |-> TakeB(DropB(x, BigAdd(descAt, BigOf(4))), descLen),
         Width       |-> FieldBE(x, sizeAt),
         Height      |-> FieldBE(x, BigAdd(sizeAt, BigOf(4))),
         Depth       |-> FieldBE(x, BigAdd(sizeAt, BigOf(8))),
         Colors      |-> FieldBE(x, BigAdd(sizeAt, BigOf(12))),
         Data        |-> TakeB(DropB(x, dataAt), dataLen),
         rest        |-> DropB(DropB(x, dataAt), dataLen)]

\* the image lies next to the file and its header and bytes can be read
ImageReadable == coverFile.exists /\ coverFile.opens /\ coverFile.decodes /\ coverFile.reads

\* the front cover the image gives: type 3, image/jpeg, no description, the
\* size of the header, depth 24, no palette, the bytes of the file
FrontCoverOf(cv) ==
    [PictureType |-> BigOf(3), MimeType |-> Str(<<105, 109, 97, 103, 101, 47, 106, 112, 101, 103>>),
     Description |-> <<>>, Width |-> BigOf(cv.w), Height |-> BigOf(cv.h),
     Depth |-> BigOf(24), Colors |-> BigOf(0), Data |-> cv.data, rest |-> <<>>]

\* C21: on a list without a picture block and a readable image, processCover
\* appends exactly one picture block at the end (type 3, image/jpeg, empty
\* description, depth 24, colors 0, width and height of the header, the bytes
\* of the file as data), leaves the other blocks as they were and returns
\* modified = true; a later call on the resulting list adds nothing.
C21_CoverAppended ==
    /\ \A h \in CoverCalls :
          (~ContainsPicture(h.res.mb.meta) /\ ImageReadable) =>
              /\ h.res.cover.modified /\ ~h.res.cover.err
              /\ Len(h.res.cover.meta) = Len(h.res.mb.meta) + 1
              /\ SubSeq(h.res.cover.meta, 1, Len(h.res.mb.meta)) = h.res.mb.meta
              /\ Last(h.res.cover.meta).Type = "Picture"
              /\ PictureOf(Last(h.res.cover.meta).Data) = FrontCoverOf(coverFile)
    /\ \A i \in 1..Len(fixHist) : \A j \in (i + 1)..Len(fixHist) :
          (/\ fixHist[i].res.cover.modified
           /\ fixHist[j].res.cover.called
           /\ fixHist[j].res.mb.meta = fixHist[i].res.cover.meta) =>
              /\ ~fixHist[j].res.cover.modified
              /\ fixHist[j].res.cover.meta = fixHist[i].res.cover.meta

\* the image lies next to the file and cannot be opened, decoded or read
ImageUnreadable ==
    coverFile.exists /\ ~(coverFile.opens /\ coverFile.decodes /\ coverFile.reads)

\* C22: when the image exists and cannot be read or introspected, fixFlac
\* skips the cover step only: it returns no error, and a merge made on the
\* same file is kept and, in write mode, saved.
C22_CoverFailureSkipsCoverOnly ==
    \A h \in FixCalls :
        (/\ h.res.cover.called /\ ImageUnreadable
         /\ ~ContainsPicture(h.res.mb.meta)) =>
            /\ ~h.res.err
            /\ (h.res.mb.modified /\ h.config.Write) => h.res.saveCalled

\* the file on disk after the call is the file before it
FileKept(h) == h.res.file.meta = h.res.before

\* C23: f.Save is called only when the write flag is set, no step returned an
\* error and the merge or the cover step reported a modification; without the
\* write flag the file on disk stays as it was, whatever was detected, and a
\* file nothing was changed in is not rewritten with the flag either.
C23_SaveOnlyWhenWriteAndModified ==
    \A h \in FixCalls :
        /\ h.res.saveCalled =>
              /\ h.config.Write
              /\ ~h.res.mb.err /\ ~h.res.cover.err
              /\ h.res.mb.modified \/ h.res.cover.modified
        /\ ~h.config.Write => (~h.res.saveCalled /\ FileKept(h))
        /\ ~(h.res.mb.modified \/ h.res.cover.modified) => (~h.res.saveCalled /\ FileKept(h))
        /\ ~h.res.saveCalled => FileKept(h)

\* a dry run found a merge to make and left the file alone; the next run, with
\* the write flag, saved it
C23_Witness ==
    /\ Len(fixHist) = 2
    /\ ~fixHist[1].config.Write /\ fixHist[1].res.MBIDsFixed /\ fixHist[1].res.dryRun
    /\ FileKept(fixHist[1])
    /\ fixHist[2].config.Write /\ fixHist[2].res.saveCalled /\ ~FileKept(fixHist[2])

\* C24: Picture.Marshal writes, in this order and big-endian, the type, the
\* mime type behind its length, the description behind its length, width,
\* height, depth, colors and the data behind its length, and nothing else: the
\* payload is 32 + len(mime) + len(description) + len(data) bytes long.
C24_PictureLayout ==
    PictureEncoded =>
        /\ PictureOf(codecOut.payload) = [PictureType |-> codecIn.pic.PictureType,
                                          MimeType    |-> codecIn.pic.MimeType,
                                          Description |-> codecIn.pic.Description,
                                          Width       |-> codecIn.pic.Width,
                                          Height      |-> codecIn.pic.Height,
                                          Depth       |-> codecIn.pic.Depth,
                                          Colors      |-> codecIn.pic.Colors,
                                          Data        |-> codecIn.pic.Data,
                                          rest        |-> <<>>]
        /\ BLen(codecOut.payload) =
              BigAdd(BigAdd(BigOf(32), BLen(codecIn.pic.MimeType)),
                     BigAdd(BLen(codecIn.pic.Description), BLen(codecIn.pic.Data)))

\* ---------------------------------------------------- claims on the display
StatsPending == Len(SelectSeq(worker.pending, LAMBDA x : x.type = "stats"))

\* C29: with the progress bar the worker sends exactly one StatsMsg per FLAC
\* file it processes, failed or not, and doneMsg exactly once, after the last
\* StatsMsg and after pruning; the display keeps exactly one receive
\* outstanding on the channel, its processed counter never exceeds the number
\* of StatsMsg sent, and equals it when the display quits on doneMsg.
C29_ProgressProtocol ==
    worker.started =>
        /\ pc # "killed" => worker.statsSent + StatsPending = Len(processed)
        /\ worker.doneSent <= 1
        /\ \A i \in 1..Len(worker.sent) : worker.sent[i] = "done" => i = Len(worker.sent)
        /\ worker.doneSent = 1 =>
              /\ worker.returned /\ pc = "done"
              /\ worker.statsSent = Len(processed)
              /\ PruneEnabled(cfg) => prune.called
        /\ (worker.returned /\ worker.pending = <<>>) => worker.doneSent = 1
        /\ waits + Len(inbox) <= 1
        /\ (~model.quitting /\ ~Gone) => waits + Len(inbox) = 1
        /\ model.processed <= worker.statsSent
        /\ model.quitOn = "done" => model.processed = worker.statsSent

\* a run over the three files in which an encoder call failed: the display
\* counted three files and quit on the doneMsg sent after the prune pass
C29_Witness ==
    /\ model.quitOn = "done" /\ model.processed = 3 /\ worker.statsSent = 3
    /\ prune.called /\ worker.doneSent = 1
    /\ \E i \in 1..(Len(worker.sent) - 1) :
          worker.sent[i] = "status" /\ worker.sent[i + 1] = "status"

\* ------------------------------------------------ claims on the path mapping
\* the name ends in ".flac"
EndsInFlac(p) == Len(Last(p)) > 1 /\ Last(Last(p)) = "flac"

\* the source root of the run: the input directory, or the directory of the
\* single input file
SourceRootOf(c) == IF IsDir(c.input) THEN Resolve(c.input) ELSE Front(Resolve(c.input))

\* C25: the output path of a source file is the output root, then the path of
\* the file below the source root with its final extension replaced by .opus;
\* and for a source path ending in .flac the expected source path that
\* pruneOutput computes for that output path is the source path again.
C25_PathRoundTrip ==
    (conv.called /\ conv.res.reached) =>
        /\ conv.res.outputFile = OutputPathOf(Resolve(conv.input))
        /\ EndsInFlac(Resolve(conv.input)) =>
              ExpectedFlac(MkPath(TRUE, SourceRootOf(cfg)), cfg.ConvertOpus, conv.res.outputFile)
                = Resolve(conv.input)

\* the file a.b.flac below the source directory was mapped to a.b.opus and back
C25_Witness ==
    /\ conv.called /\ conv.res.reached /\ IsDir(cfg.input)
    /\ Resolve(conv.input) = ABFlac
    /\ conv.res.outputFile = OutRoot \o << <<"a", "b", "opus">> >>

\* the output and temporary path convertOpus derives for a file of this run
DerivedFor(f) == convertOpus(f, InputRootOf(cfg), cfg, files, dirs, now, "fail_none")

\* C27: two different source files handed to convertOpus by one walk get
\* different output paths and different temporary paths.
C27_DistinctOutputs ==
    \A i \in 1..Len(processed) : \A j \in 1..Len(processed) :
        (i # j /\ Resolve(processed[i]) \in DOMAIN files /\ Resolve(processed[j]) \in DOMAIN files) =>
            /\ DerivedFor(processed[i]).outputFile # DerivedFor(processed[j]).outputFile
            /\ DerivedFor(processed[i]).tmp # DerivedFor(processed[j]).tmp

\* C30: for a single input file convertOpus derives <output_root>/<basename>.opus
\* with or without the progress bar and for a relative as for an absolute
\* input path, and the call fails only where the encoder or the rename failed.
C30_SingleFileSameInBothModes ==
    (conv.called /\ ~IsDir(cfg.input)) =>
        /\ conv.res.reached
        /\ conv.res.outputFile = OutRoot \o <<AddExt(TrimExt(Last(cfg.input.segs)), "opus")>>
        /\ conv.res.err => (conv.res.encCalls = 1)

\* the .opus files of the output tree outside its hidden directories
VisibleOpus == {p \in DOMAIN files : InOutput(p) /\ ~InHiddenDir(p) /\ ExtOf(Last(p)) = <<"opus">>}

\* a run without the progress bar over the directory that reached its end: no
\* convertOpus call returned an error, so every encoder that ran succeeded
CleanFullRun == JustPruned /\ ~prune.err /\ ~cfg.Progress /\ IsDir(cfg.input)

\* C26: after a run over the whole tree with pruning in which every encoder
\* call succeeded, the .opus files of the output tree outside hidden
\* directories are exactly the output paths of the source FLAC files, none of
\* them is older than its source, and no temporary file remains there.
C26_TreesConsistent ==
    CleanFullRun =>
        /\ VisibleOpus = {OutputPathOf(f) : f \in AcceptedSources} \ {p \in DOMAIN files : InHiddenDir(p)}
        /\ \A f \in AcceptedSources :
              OutputPathOf(f) \in VisibleOpus => files[OutputPathOf(f)].mtime >= files[f].mtime
        /\ \A p \in DOMAIN files : (InOutput(p) /\ ~InHiddenDir(p)) => ~HasOpusTmpSuffix(p)

\* what lies at and below the source root
SourceTree(fs, ds) ==
    [fs |-> [p \in {q \in DOMAIN fs : IsPrefix(SrcRoot, q)} |-> fs[p]],
     ds |-> {d \in ds : IsPrefix(SrcRoot, d)}]

\* C28: no step of a run creates, changes, renames or deletes a file or a
\* directory at or below the source root (the two roots lie apart): the
\* source tree after a convertOpus or pruneOutput call is the one before it.
C28_SourceUntouched == [][SourceTree(files', dirs') = SourceTree(files, dirs)]_vars

\* a run converted a file and then pruned orphans, with the source files in place
C28_Witness ==
    /\ JustPruned /\ prune.removed # {} /\ conv.called /\ conv.res.converted
    /\ AcceptedSources = SrcFiles
    /\ \A f \in SrcFiles : files[f] = [mtime |-> 2, data |-> "flac"]

====
